---- MODULE Spec2Model ----
(***************************************************************************)
(* A model of rysk-core: one RISC-V hart (system::Core) over the register  *)
(* abstraction (register.rs) and the variant decoder (variant.rs).         *)
(*                                                                         *)
(* Representation.  A register is, as in the source, a little-endian array *)
(* of bytes (Register32([u8; 4]), Register64([u8; 8])); TLA+ tuples are    *)
(* 1-indexed, so self.0[k] is self[k + 1].  The machine integers behind    *)
(* signed()/unsigned() (i32, u32, i64, u64) do not fit TLC's integers, so  *)
(* a machine integer is its little-endian sequence of 16-bit digits        *)
(* (2 digits for 32 bits, 4 for 64 bits): from_le_bytes and to_le_bytes    *)
(* convert between the two, and the wrapping operations work on digits.    *)
(* An instruction is the 4-byte array Mmu::fetch returns.                  *)
(***************************************************************************)
EXTENDS Integers, Sequences, FiniteSets, TLC

(***************************************************************************)
(* Bounds of the model.                                                    *)
(***************************************************************************)
\* calls of Core::execute in one behaviour
MaxSteps == 2
\* calls of Core::set in one behaviour
MaxSets == 2
\* calls of Core::execute a behaviour makes when it runs a program from memory
MaxRun == 3

(***************************************************************************)
(* u8 / digit arithmetic: the operators &, |, ^, <<, >> of the source.     *)
(***************************************************************************)
RECURSIVE BitAnd(_, _)
BitAnd(a, b) ==
    IF a = 0 \/ b = 0 THEN 0
    ELSE (a % 2) * (b % 2) + 2 * BitAnd(a \div 2, b \div 2)

RECURSIVE BitOr(_, _)
BitOr(a, b) ==
    IF a = 0 THEN b
    ELSE IF b = 0 THEN a
    ELSE (IF a % 2 = 1 \/ b % 2 = 1 THEN 1 ELSE 0) + 2 * BitOr(a \div 2, b \div 2)

RECURSIVE BitXor(_, _)
BitXor(a, b) ==
    IF a = 0 THEN b
    ELSE IF b = 0 THEN a
    ELSE ((a + b) % 2) + 2 * BitXor(a \div 2, b \div 2)

\* a << n and a >> n on a u8 (bits shifted out are dropped)
Shl8(a, n) == (a * (2 ^ n)) % 256
Shr8(a, n) == a \div (2 ^ n)

(***************************************************************************)
(* Machine integers (register.rs, trait Integer, impl_integer!).           *)
(* T is one of "u32", "i32", "u64", "i64", and "u128", "i128" for the long *)
(* types of a multiplication.                                              *)
(***************************************************************************)
IsSigned(T) == T \in {"i32", "i64", "i128"}

\* uN::from_le_bytes / iN::from_le_bytes
from_le_bytes(bytes) ==
    [k \in 1..(Len(bytes) \div 2) |-> bytes[2 * k - 1] + 256 * bytes[2 * k]]

\* uN::to_le_bytes / iN::to_le_bytes
to_le_bytes(x) ==
    [k \in 1..(2 * Len(x)) |->
        IF k % 2 = 1 THEN x[(k + 1) \div 2] % 256 ELSE x[k \div 2] \div 256]

\* the integer 0 <= n < 65536 as a machine integer of `digits` digits
IntLit(n, digits) == [k \in 1..digits |-> IF k = 1 THEN n ELSE 0]

\* x + y overflows the integer type (the carry out of the top digit)
add_overflows(x, y) ==
    LET c[k \in 0..Len(x)] ==
            IF k = 0 THEN 0 ELSE (x[k] + y[k] + c[k - 1]) \div 65536
    IN  c[Len(x)] = 1

wrapping_add(x, y) ==
    LET c[k \in 0..Len(x)] ==
            IF k = 0 THEN 0 ELSE (x[k] + y[k] + c[k - 1]) \div 65536
    IN  [k \in 1..Len(x) |-> (x[k] + y[k] + c[k - 1]) % 65536]

wrapping_sub(x, y) ==
    LET b[k \in 0..Len(x)] ==
            IF k = 0 THEN 0
            ELSE IF x[k] - y[k] - b[k - 1] < 0 THEN 1 ELSE 0
    IN  [k \in 1..Len(x) |-> (x[k] - y[k] - b[k - 1] + 65536) % 65536]

\* `other as u32` followed by the masking of wrapping_shl / wrapping_shr:
\* the shift amount is the operand modulo the bit width of self
\* a shift amount of five bits whatever the width
ShiftAmount_five(self, other) == other[1] % 32

ShiftAmount(self, other) == other[1] % (16 * Len(self))

wrapping_shl(self, n) ==
    LET q == n \div 16
        r == n % 16
        L(k) == IF k >= 1 THEN self[k] ELSE 0
    IN  [k \in 1..Len(self) |->
            (L(k - q) % (2 ^ (16 - r))) * (2 ^ r) + (L(k - q - 1) \div (2 ^ (16 - r)))]

\* >> on an unsigned type fills with 0, on a signed type with the sign bit
wrapping_shr(T, self, n) ==
    LET q == n \div 16
        r == n % 16
        fill == IF IsSigned(T) /\ self[Len(self)] >= 32768 THEN 65535 ELSE 0
        L(k) == IF k <= Len(self) THEN self[k] ELSE fill
    IN  [k \in 1..Len(self) |->
            (L(k + q) \div (2 ^ r)) + (L(k + q + 1) % (2 ^ r)) * (2 ^ (16 - r))]

\* an addition that panics when the sum does not fit
Integer_add_checked(self, other) ==
    IF add_overflows(self, other) THEN <<>> ELSE wrapping_add(self, other)

Integer_add(self, other) == wrapping_add(self, other)
Integer_sub(self, other) == wrapping_sub(self, other)
Integer_shl(self, other) == wrapping_shl(self, ShiftAmount(self, other))
Integer_shr(T, self, other) == wrapping_shr(T, self, ShiftAmount(self, other))

RECURSIVE DigitsLess(_, _, _)
DigitsLess(x, y, k) ==
    IF k = 0 THEN FALSE
    ELSE IF x[k] # y[k] THEN x[k] < y[k]
    ELSE DigitsLess(x, y, k - 1)

\* self < other in the order of the type T
Integer_lt(T, self, other) ==
    LET n == Len(self)
        flip(x) == [x EXCEPT ![n] = (x[n] + 32768) % 65536]
    IN  IF IsSigned(T) THEN DigitsLess(flip(self), flip(other), n)
        ELSE DigitsLess(self, other, n)

Integer_gte(T, self, other) == ~Integer_lt(T, self, other)
Integer_eq(self, other) == self = other
Integer_neq(self, other) == self # other

Integer_and(self, other) == [k \in 1..Len(self) |-> BitAnd(self[k], other[k])]
Integer_or(self, other) == [k \in 1..Len(self) |-> BitOr(self[k], other[k])]
Integer_xor(self, other) == [k \in 1..Len(self) |-> BitXor(self[k], other[k])]
Integer_not(self) == [k \in 1..Len(self) |-> 65535 - self[k]]

\* `x as $signed_long` / `x as $unsigned_long`: the value of x in twice the
\* digits, extended by the sign of a signed T and by zeros otherwise
Widen(T, x) ==
    LET fill == IF IsSigned(T) /\ x[Len(x)] >= 32768 THEN 65535 ELSE 0
    IN  [k \in 1..(2 * Len(x)) |-> IF k <= Len(x) THEN x[k] ELSE fill]

\* the sum of the byte products of column k of a long multiplication
RECURSIVE ColumnSum(_, _, _, _)
ColumnSum(bx, by, k, i) ==
    IF i > k THEN 0 ELSE bx[i] * by[k + 1 - i] + ColumnSum(bx, by, k, i + 1)

\* the bytes of the product of bx and by from column k on, modulo 256^Len(bx):
\* `done` holds the bytes below column k, `total` is the sum of column k and
\* of what the columns below carried over
RECURSIVE ProductFrom(_, _, _, _, _)
ProductFrom(bx, by, k, total, done) ==
    IF k = Len(bx) THEN Append(done, total % 256)
    ELSE ProductFrom(bx, by, k + 1, ColumnSum(bx, by, k + 1, 1) + (total \div 256),
                     Append(done, total % 256))

\* the product of x and y modulo 2^(16 * Len(x))
Product(x, y) ==
    SubSeq(from_le_bytes(ProductFrom(SubSeq(to_le_bytes(x), 1, 2 * Len(x)),
                                     SubSeq(to_le_bytes(y), 1, 2 * Len(y)),
                                     1, (x[1] % 256) * (y[1] % 256), <<>>)),
           1, Len(x))

\* $signed_long and $unsigned_long of impl_multiply!
Long(T) ==
    CASE T = "i32" -> "i64"
      [] T = "u32" -> "u64"
      [] T = "i64" -> "i128"
      [] T = "u64" -> "u128"

\* the exact product cut to the n digits of the long type T when the type
\* holds it, and the bound of the type on the side of the product otherwise
Saturated(T, n, exact) ==
    LET low == [k \in 1..n |-> exact[k]]
        fill == IF IsSigned(T) /\ exact[n] >= 32768 THEN 65535 ELSE 0
        fits == \A k \in (n + 1)..(2 * n) : exact[k] = fill
        negative == IsSigned(T) /\ exact[2 * n] >= 32768
    IN  IF fits THEN low
        ELSE IF negative THEN [k \in 1..n |-> IF k = n THEN 32768 ELSE 0]
        ELSE [k \in 1..n |-> IF k = n /\ IsSigned(T) THEN 32767 ELSE 65535]

\* saturating_mul of the long type T; the exact product is taken in twice the
\* digits of T
saturating_mul(T, x, y) ==
    SubSeq(Saturated(T, Len(x), Product(SubSeq(Widen(T, x), 1, 2 * Len(x)),
                                        SubSeq(Widen(T, y), 1, 2 * Len(y)))),
           1, Len(x))

\* (result as _, (result >> (bytes * 8)) as _): the low and the high half
Halves(result) ==
    LET n == Len(result) \div 2
    IN  <<[k \in 1..n |-> result[k]], [k \in 1..n |-> result[n + k]]>>

\* Multiply::muls, mulu, mulsu for the signed type S and its unsigned type U
muls(S, first, second) ==
    Halves(saturating_mul(Long(S), Widen(S, first), Widen(S, second)))
mulu(U, first, second) ==
    Halves(saturating_mul(Long(U), Widen(U, first), Widen(U, second)))
\* a signed-unsigned product that reads the second operand as signed
mulsu_signed(S, U, first, second) ==
    Halves(saturating_mul(Long(S), Widen(S, first), Widen(S, second)))

mulsu(S, U, first, second) ==
    Halves(saturating_mul(Long(S), Widen(S, first), Widen(U, second)))

\* the constants 0, -1 as _ and std::$name::MIN of a type with as many digits as x
Zero(x) == [k \in 1..Len(x) |-> 0]
AllOnes(x) == [k \in 1..Len(x) |-> 65535]
MIN(T, x) ==
    [k \in 1..Len(x) |-> IF IsSigned(T) /\ k = Len(x) THEN 32768 ELSE 0]

\* one step of the long division of x by `divisor`: the remainder r takes in
\* bit `bit` of x, and the quotient q gets that bit when the divisor fits
DivideStep(x, divisor, bit, q, r) ==
    LET n == Len(r)
        next == (x[(bit \div 16) + 1] \div (2 ^ (bit % 16))) % 2
        shifted == SubSeq([k \in 1..n |->
                              ((2 * r[k]) % 65536)
                                  + (IF k = 1 THEN next ELSE r[k - 1] \div 32768)], 1, n)
    IN  IF DigitsLess(shifted, divisor, n) THEN <<q, shifted>>
        ELSE <<SubSeq([q EXCEPT ![(bit \div 16) + 1] = @ + 2 ^ (bit % 16)], 1, Len(q)),
               SubSeq(wrapping_sub(shifted, divisor), 1, n)>>

\* unsigned long division of x by y # 0, bit by bit from the top:
\* <<quotient, remainder>>
RECURSIVE DivideFrom(_, _, _, _)
DivideFrom(x, divisor, bit, done) ==
    IF bit < 0 \/ Len(done) # 2 THEN done
    ELSE DivideFrom(x, divisor, bit - 1, DivideStep(x, divisor, bit, done[1], done[2]))
Divide(x, y) ==
    LET n == Len(x)
        divisor == SubSeq([k \in 1..(n + 1) |-> IF k <= n THEN y[k] ELSE 0], 1, n + 1)
        done == DivideFrom(SubSeq(x, 1, n), divisor, 16 * n - 1,
                           <<SubSeq(Zero(x), 1, n),
                             SubSeq([k \in 1..(n + 1) |-> 0], 1, n + 1)>>)
    IN  <<done[1], [k \in 1..n |-> done[2][k]]>>

\* the `/` and `%` of the type T: truncated toward zero, the remainder with the
\* sign of the dividend; a panic when the divisor is 0 ("attempt to divide by
\* zero") and, on a signed type, for MIN / -1 ("attempt to divide with overflow")
Quotient(T, self, other) ==
    LET negative(x) == IsSigned(T) /\ x[Len(x)] >= 32768
        magnitude(x) == IF negative(x) THEN wrapping_sub(Zero(x), x) ELSE x
        q == Divide(magnitude(self), magnitude(other))[1]
    IN  IF other = Zero(other) THEN <<>>
        ELSE IF IsSigned(T) /\ self = MIN(T, self) /\ other = AllOnes(other) THEN <<>>
        ELSE IF negative(self) # negative(other) THEN wrapping_sub(Zero(q), q) ELSE q
\* a remainder that is never negative
Remainder_magnitude(T, self, other) ==
    LET negative(x) == IsSigned(T) /\ x[Len(x)] >= 32768
        magnitude(x) == IF negative(x) THEN wrapping_sub(Zero(x), x) ELSE x
    IN  IF other = Zero(other) THEN <<>>
        ELSE IF IsSigned(T) /\ self = MIN(T, self) /\ other = AllOnes(other) THEN <<>>
        ELSE Divide(magnitude(self), magnitude(other))[2]

Remainder(T, self, other) ==
    LET negative(x) == IsSigned(T) /\ x[Len(x)] >= 32768
        magnitude(x) == IF negative(x) THEN wrapping_sub(Zero(x), x) ELSE x
        r == Divide(magnitude(self), magnitude(other))[2]
    IN  IF other = Zero(other) THEN <<>>
        ELSE IF IsSigned(T) /\ self = MIN(T, self) /\ other = AllOnes(other) THEN <<>>
        ELSE IF negative(self) THEN wrapping_sub(Zero(r), r) ELSE r

\* a division that leaves out the case of the divisor 0
Integer_div_unguarded(T, self, other) ==
    IF self = MIN(T, self) /\ other = AllOnes(other) THEN self
    ELSE Quotient(T, self, other)

Integer_div(T, self, other) ==
    IF other = Zero(other) THEN AllOnes(self)
    ELSE IF self = MIN(T, self) /\ other = AllOnes(other) THEN self
    ELSE Quotient(T, self, other)
Integer_rem(T, self, other) ==
    IF other = Zero(other) THEN self
    ELSE IF self = MIN(T, self) /\ other = AllOnes(other) THEN Zero(self)
    ELSE Remainder(T, self, other)

(***************************************************************************)
(* Registers (register.rs, traits Xlen and Register).                      *)
(* R is "Register32" or "Register64"; a register value is its byte array.  *)
(***************************************************************************)
RegisterTypes == {"Register32", "Register64"}

\* the length of the byte array of the register type
ByteLen(R) == IF R = "Register32" THEN 4 ELSE 8

\* Xlen::Signed and Xlen::Unsigned
Signed(R) == IF R = "Register32" THEN "i32" ELSE "i64"
Unsigned(R) == IF R = "Register32" THEN "u32" ELSE "u64"

\* const WIDTH: both implementations declare RegisterWidth::Bits32
WIDTH(R) ==
    CASE R = "Register32" -> "Bits32"
      [] R = "Register64" -> "Bits32"

\* the register type of a register value
TypeOf(self) == IF Len(self) = 4 THEN "Register32" ELSE "Register64"

signed(self) == from_le_bytes(self)
unsigned(self) == from_le_bytes(self)
from_signed(from) == to_le_bytes(from)
from_unsigned(from) == to_le_bytes(from)

\* self.unsigned() + value as uN: the sum, and whether `+` overflows
append(self, value) ==
    wrapping_add(unsigned(self), IntLit(value, Len(self) \div 2))
append_overflows(self, value) ==
    add_overflows(unsigned(self), IntLit(value, Len(self) \div 2))

add_signed(self, other) == from_signed(Integer_add(signed(self), signed(other)))
add_unsigned(self, other) == from_unsigned(Integer_add(unsigned(self), unsigned(other)))
sub_unsigned(self, other) == from_unsigned(Integer_sub(unsigned(self), unsigned(other)))

shl(self, other) == from_unsigned(Integer_shl(unsigned(self), unsigned(other)))
shr(self, other) ==
    from_unsigned(Integer_shr(Unsigned(TypeOf(self)), unsigned(self), unsigned(other)))
sha(self, other) ==
    from_signed(Integer_shr(Signed(TypeOf(self)), signed(self), signed(other)))

and(self, other) == from_unsigned(Integer_and(unsigned(self), unsigned(other)))
or(self, other) == from_unsigned(Integer_or(unsigned(self), unsigned(other)))
xor(self, other) == from_unsigned(Integer_xor(unsigned(self), unsigned(other)))
not(self) == from_unsigned(Integer_not(unsigned(self)))

eq(self, other) == Integer_eq(unsigned(self), unsigned(other))
neq(self, other) == Integer_neq(unsigned(self), unsigned(other))
\* a signed order that compares the unsigned views
lt_signed_unsigned(self, other) ==
    Integer_lt(Unsigned(TypeOf(self)), unsigned(self), unsigned(other))

lt_signed(self, other) ==
    Integer_lt(Signed(TypeOf(self)), signed(self), signed(other))
lt_unsigned(self, other) ==
    Integer_lt(Unsigned(TypeOf(self)), unsigned(self), unsigned(other))
gte_signed(self, other) ==
    Integer_gte(Signed(TypeOf(self)), signed(self), signed(other))
gte_unsigned(self, other) ==
    Integer_gte(Unsigned(TypeOf(self)), unsigned(self), unsigned(other))

\* the M extension (cfg ext-m)
mul(self, other) ==
    from_signed(muls(Signed(TypeOf(self)), signed(self), signed(other))[1])
mulh(self, other) ==
    from_signed(muls(Signed(TypeOf(self)), signed(self), signed(other))[2])
mulhu(self, other) ==
    from_unsigned(mulu(Unsigned(TypeOf(self)), unsigned(self), unsigned(other))[2])
mulhsu(self, other) ==
    from_signed(mulsu(Signed(TypeOf(self)), Unsigned(TypeOf(self)),
                      signed(self), unsigned(other))[2])
div(self, other) ==
    from_signed(Integer_div(Signed(TypeOf(self)), signed(self), signed(other)))
divu(self, other) ==
    from_unsigned(Integer_div(Unsigned(TypeOf(self)), unsigned(self), unsigned(other)))
rem(self, other) ==
    from_signed(Integer_rem(Signed(TypeOf(self)), signed(self), signed(other)))
remu(self, other) ==
    from_unsigned(Integer_rem(Unsigned(TypeOf(self)), unsigned(self), unsigned(other)))

\* what a panicking constructor or accessor yields (panic!, unimplemented!,
\* expect on an Err): the empty array, which is no register value
Panic == <<>>
IsPanic(value) == Len(value) = 0

\* the bytes of `low` followed by `extended` up to the length of R
Extend(R, low, extended) ==
    [k \in 1..ByteLen(R) |-> IF k <= Len(low) THEN low[k] ELSE extended]

sign_extended_byte(R, byte) ==
    Extend(R, <<byte>>, IF BitAnd(byte, 128) # 0 THEN 255 ELSE 0)
zero_extended_byte(R, byte) == Extend(R, <<byte>>, 0)
sign_extended_half(R, half) ==
    Extend(R, half, IF BitAnd(half[2], 128) # 0 THEN 255 ELSE 0)
zero_extended_half(R, half) == Extend(R, half, 0)
\* a word extended with zeros whatever its top bit
sign_extended_word_zeros(R, word) ==
    IF R = "Register32" THEN word ELSE Extend(R, word, 0)

sign_extended_word(R, word) ==
    IF R = "Register32" THEN word
    ELSE Extend(R, word, IF BitAnd(word[4], 128) # 0 THEN 255 ELSE 0)
zero_extended_word(R, word) ==
    IF R = "Register32" THEN word ELSE Extend(R, word, 0)
sign_extended_double(R, double) ==
    IF R = "Register32" THEN Panic ELSE double
zero_extended_double(R, double) ==
    IF R = "Register32" THEN Panic ELSE double

byte(self) == self[1]
half(self) == <<self[1], self[2]>>
word(self) == <<self[1], self[2], self[3], self[4]>>
double(self) == IF Len(self) = 4 THEN Panic ELSE self

\* Register64::split
split(self) ==
    << <<self[1], self[2], self[3], self[4]>>, <<self[5], self[6], self[7], self[8]>> >>

\* Xlen::trap_cause
trap_cause(R, cause, interrupt) ==
    IF R = "Register32" THEN <<IF interrupt THEN 128 ELSE 0, 0, 0, cause>>
    ELSE <<IF interrupt THEN 128 ELSE 0, 0, 0, 0, 0, 0, 0, cause>>

\* Default::default()
default(R) == [k \in 1..ByteLen(R) |-> 0]

(***************************************************************************)
(* The variant decoder (variant.rs).  instruction[k + 1] is the source's   *)
(* instruction[k].                                                         *)
(***************************************************************************)
\* macro destination!
destination(instruction) ==
    BitOr(Shr8(BitAnd(instruction[1], 128), 7), Shl8(BitAnd(instruction[2], 15), 1))
\* macro source1!
source1(instruction) ==
    BitOr(Shr8(BitAnd(instruction[2], 128), 7), Shl8(BitAnd(instruction[3], 15), 1))
\* a source2 that leaves out instruction bit 24
source2_low(instruction) == Shr8(BitAnd(instruction[3], 240), 4)

\* macro source2!
source2(instruction) ==
    BitOr(Shr8(BitAnd(instruction[3], 240), 4), Shl8(BitAnd(instruction[4], 1), 4))

\* instruction[3] & 0x80 != 0
SignBit(instruction) == BitAnd(instruction[4], 128) # 0

R_decode(instruction) ==
    [destination |-> destination(instruction),
     source1 |-> source1(instruction),
     source2 |-> source2(instruction)]

\* an I decoder that never fills the upper bits of the immediate
I_decode_unsigned(R, instruction) ==
    [destination |-> destination(instruction),
     source |-> source1(instruction),
     immediate |-> sign_extended_half(R, <<
        BitOr(Shr8(BitAnd(instruction[3], 240), 4), Shl8(BitAnd(instruction[4], 15), 4)),
        Shr8(BitAnd(instruction[4], 240), 4) >>)]

I_decode(R, instruction) ==
    [destination |-> destination(instruction),
     source |-> source1(instruction),
     immediate |-> sign_extended_half(R, <<
        BitOr(Shr8(BitAnd(instruction[3], 240), 4), Shl8(BitAnd(instruction[4], 15), 4)),
        BitOr(Shr8(BitAnd(instruction[4], 240), 4),
              IF SignBit(instruction) THEN 240 ELSE 0) >>)]

\* a C decoder that drops the high 4 bits of the CSR address
C_decode_narrow(instruction) ==
    [destination |-> destination(instruction),
     source |-> source1(instruction),
     csr |-> BitOr(Shr8(BitAnd(instruction[3], 240), 4),
                   BitAnd(instruction[4], 15) * 16)]

\* a C decoder that sign-extends the 12-bit CSR address
C_decode_signed(instruction) ==
    [destination |-> destination(instruction),
     source |-> source1(instruction),
     csr |-> BitOr(Shr8(BitAnd(instruction[3], 240), 4),
                   BitAnd(instruction[4], 255) * 16)
             - (IF SignBit(instruction) THEN 4096 ELSE 0)]

C_decode(instruction) ==
    [destination |-> destination(instruction),
     source |-> source1(instruction),
     csr |-> BitOr(Shr8(BitAnd(instruction[3], 240), 4),
                   BitAnd(instruction[4], 255) * 16)]

S_decode(R, instruction) ==
    [source1 |-> source1(instruction),
     source2 |-> source2(instruction),
     immediate |-> sign_extended_half(R, <<
        BitOr(BitOr(Shr8(BitAnd(instruction[1], 128), 7),
                    Shl8(BitAnd(instruction[2], 15), 1)),
              Shl8(BitAnd(instruction[4], 14), 4)),
        BitOr(Shr8(BitAnd(instruction[4], 240), 4),
              IF SignBit(instruction) THEN 240 ELSE 0) >>)]

\* a B decoder that puts instruction bit 7 in bit 0 of the offset, as S does
B_decode_odd(R, instruction) ==
    [source1 |-> source1(instruction),
     source2 |-> source2(instruction),
     immediate |-> sign_extended_half(R, <<
        BitOr(BitOr(Shr8(BitAnd(instruction[1], 128), 7),
                    Shl8(BitAnd(instruction[2], 15), 1)),
              Shl8(BitAnd(instruction[4], 14), 4)),
        BitOr(BitOr(BitOr(Shr8(BitAnd(instruction[4], 112), 4),
                          Shr8(BitAnd(instruction[1], 128), 4)),
                    Shr8(BitAnd(instruction[4], 128), 3)),
              IF SignBit(instruction) THEN 224 ELSE 0) >>)]

B_decode(R, instruction) ==
    [source1 |-> source1(instruction),
     source2 |-> source2(instruction),
     immediate |-> sign_extended_half(R, <<
        BitOr(Shl8(BitAnd(instruction[2], 15), 1), Shl8(BitAnd(instruction[4], 14), 4)),
        BitOr(BitOr(BitOr(Shr8(BitAnd(instruction[4], 112), 4),
                          Shr8(BitAnd(instruction[1], 128), 4)),
                    Shr8(BitAnd(instruction[4], 128), 3)),
              IF SignBit(instruction) THEN 224 ELSE 0) >>)]

\* a U decoder that keeps the low 4 bits of instruction[1]
U_decode_unmasked(R, instruction) ==
    [destination |-> destination(instruction),
     immediate |-> sign_extended_word(R,
        <<0, instruction[2], instruction[3], instruction[4]>>)]

\* a U decoder that fills the upper half of a 64-bit register with zeros
U_decode_zero_extended(R, instruction) ==
    [destination |-> destination(instruction),
     immediate |-> zero_extended_word(R,
        <<0, BitAnd(instruction[2], 240), instruction[3], instruction[4]>>)]

U_decode(R, instruction) ==
    [destination |-> destination(instruction),
     immediate |-> sign_extended_word(R,
        <<0, BitAnd(instruction[2], 240), instruction[3], instruction[4]>>)]

\* a J decoder that takes offset bit 11 from instruction bit 21 instead of bit 20
J_decode_shifted(R, instruction) ==
    [destination |-> destination(instruction),
     immediate |-> sign_extended_word(R, <<
        BitOr(Shr8(BitAnd(instruction[3], 224), 4), Shl8(BitAnd(instruction[4], 15), 4)),
        BitOr(BitOr(Shr8(BitAnd(instruction[4], 112), 4),
                    Shr8(BitAnd(instruction[3], 32), 2)),
              BitAnd(instruction[2], 240)),
        BitOr(BitOr(BitAnd(instruction[3], 15), Shr8(BitAnd(instruction[4], 128), 3)),
              IF SignBit(instruction) THEN 224 ELSE 0),
        IF SignBit(instruction) THEN 255 ELSE 0 >>)]

J_decode(R, instruction) ==
    [destination |-> destination(instruction),
     immediate |-> sign_extended_word(R, <<
        BitOr(Shr8(BitAnd(instruction[3], 224), 4), Shl8(BitAnd(instruction[4], 15), 4)),
        BitOr(BitOr(Shr8(BitAnd(instruction[4], 112), 4),
                    Shr8(BitAnd(instruction[3], 16), 1)),
              BitAnd(instruction[2], 240)),
        BitOr(BitOr(BitAnd(instruction[3], 15), Shr8(BitAnd(instruction[4], 128), 3)),
              IF SignBit(instruction) THEN 224 ELSE 0),
        IF SignBit(instruction) THEN 255 ELSE 0 >>)]

(***************************************************************************)
(* The hart (system.rs, struct Core<R>) and the host's memory (trait Mmu). *)
(***************************************************************************)
VARIABLES
    R,                \* the register type the core is instantiated with
    ext_csr,          \* cargo feature "ext-csr"
    ext_m,            \* cargo feature "ext-m"
    overflow_checks,  \* the build panics on integer overflow (rustc -C overflow-checks)
    registers,        \* Core::registers
    pc,               \* Core::pc
    csr,              \* Core::csr (csr.rs, struct Csr<R>); NoCsr without ext-csr
    mmu,              \* the host's data memory: address -> byte, 0 where never written
    ret,              \* what the last call of execute returned
    last,             \* the last call and the state it started from
    nsteps,           \* calls of execute so far
    nsets,            \* calls of set so far
    code,             \* the instruction words the host's memory may hold at pc
    host              \* the register indices and values the host passes to Core::set

vars == <<R, ext_csr, ext_m, overflow_checks, registers, pc, csr, mmu, ret, last,
          nsteps, nsets, code, host>>

\* the field csr does not exist without the feature ext-csr
NoCsr == [absent |-> TRUE]

\* Csr::new
Csr_new(T, hart, trap_address) ==
    [mhartid |-> from_unsigned(hart),
     mtvec |-> from_unsigned(trap_address),
     medeleg |-> default(T),
     mideleg |-> default(T),
     mie |-> default(T),
     mip |-> default(T),
     mcycle |-> default("Register64"),
     mcounteren |-> default("Register32"),
     mscratch |-> default(T),
     mepc |-> default(T),
     mcause |-> default(T),
     mtval |-> default(T)]

\* Core::new (both cfg variants)
Core_new(T, with_csr, address, hart) ==
    [registers |-> [index \in 0..31 |-> default(T)],
     pc |-> from_unsigned(address),
     csr |-> IF with_csr THEN Csr_new(T, hart, address) ELSE NoCsr]

\* a step of half an instruction
step_short(self) ==
    [self EXCEPT !.pc = add_unsigned(self.pc, zero_extended_byte(R, 2))]

\* Core::step
step(self) ==
    [self EXCEPT !.pc = add_unsigned(self.pc, zero_extended_byte(R, 4))]

\* Core::get
get(self, index) == self.registers[index]

\* a set that forgets the guard on x0
set_without_guard(self, index, register) ==
    [self EXCEPT !.registers[index] = register]

\* Core::set
set(self, index, register) ==
    IF index > 0 THEN [self EXCEPT !.registers[index] = register] ELSE self

\* Mmu::get and Mmu::set of the host: a byte store, 0 where never written
Mmu_get(m, address) == IF address \in DOMAIN m THEN m[address] ELSE 0
Mmu_set(m, address, value) ==
    [a \in DOMAIN m \cup {address} |-> IF a = address THEN value ELSE m[a]]

\* the `+` of append panics in a build with overflow checks
append_panics(self, value) == overflow_checks /\ append_overflows(self, value)

\* Mmu::fetch (default method): the bytes the host holds at address .. address + 3,
\* read through append
Mmu_fetch(held, address) ==
    IF \E k \in 1..3 : append_panics(address, k) THEN Panic ELSE held

\* the four bytes Mmu::fetch reads from the host's memory m at address
Mmu_held(m, address) ==
    <<Mmu_get(m, unsigned(address)), Mmu_get(m, append(address, 1)),
      Mmu_get(m, append(address, 2)), Mmu_get(m, append(address, 3))>>

\* Err(Trap::IllegalInstruction) of get_csr: a 1-element array, no register value
Err == <<2>>
IsErr(value) == Len(value) = 1

\* Core::get_csr
get_csr(self, index) ==
    CASE index = 768 -> Panic                          \* 0x300 mstatus: unimplemented!()
      [] index = 769 ->                                \* 0x301 misa
            IF WIDTH(R) = "Bits32" THEN zero_extended_word(R, <<128, 0, 0, BitOr(0, 64)>>)
            ELSE zero_extended_double(R, <<128, 0, 0, 0, 0, 0, 0, 128>>)
      [] index = 770 -> self.csr.medeleg               \* 0x302
      [] index = 771 -> self.csr.mideleg               \* 0x303
      [] index = 772 -> self.csr.mie                   \* 0x304
      [] index = 773 -> self.csr.mtvec                 \* 0x305
      [] index = 774 -> zero_extended_word(R, word(self.csr.mcounteren))  \* 0x306
      [] index = 832 -> self.csr.mscratch              \* 0x340
      [] index = 833 -> self.csr.mepc                  \* 0x341
      [] index = 834 -> self.csr.mcause                \* 0x342
      [] index = 835 -> self.csr.mtval                 \* 0x343
      [] index = 836 -> self.csr.mip                   \* 0x344
      [] index \in {2816, 2818} /\ WIDTH(R) # "Bits32" ->      \* 0xB00, 0xB02
            zero_extended_double(R, double(self.csr.mcycle))
      [] index \in {2816, 2818} /\ WIDTH(R) = "Bits32" ->
            zero_extended_word(R, split(self.csr.mcycle)[1])
      [] index \in {2944, 2946} /\ WIDTH(R) = "Bits32" ->      \* 0xB80, 0xB82
            zero_extended_word(R, split(self.csr.mcycle)[2])
      [] index \in 2819..2847 -> default(R)            \* 0xB03..=0xB1F
      [] index \in 2947..2975 /\ WIDTH(R) = "Bits32" -> default(R)  \* 0xB83..=0xB9F
      [] index \in 2851..2879 -> default(R)            \* 0xB23..=0xB3F
      [] index = 3857 -> default(R)                    \* 0xF11 mvendorid
      [] index = 3858 -> default(R)                    \* 0xF12 marchid
      [] index = 3859 -> zero_extended_word(R, <<3, 0, 0, 0>>)  \* 0xF13 mimpid
      [] index = 3860 -> self.csr.mhartid              \* 0xF14
      [] OTHER -> Err

\* Core::set_csr; [!0x44, !0xF4] is [0xBB, 0x0B]
\* a set_csr that also stores to mscratch (0x340)
set_csr_scratch(self, index, value) ==
    CASE index = 772 ->
            [self EXCEPT !.csr.mie = and(value, zero_extended_half(R, <<187, 11>>))]
      [] index = 836 ->
            [self EXCEPT !.csr.mip = and(value, zero_extended_half(R, <<187, 11>>))]
      [] index = 832 -> [self EXCEPT !.csr.mscratch = value]
      [] OTHER -> self

set_csr(self, index, value) ==
    CASE index = 772 ->
            [self EXCEPT !.csr.mie = and(value, zero_extended_half(R, <<187, 11>>))]
      [] index = 836 ->
            [self EXCEPT !.csr.mip = and(value, zero_extended_half(R, <<187, 11>>))]
      [] OTHER -> self

\* a trap that ignores the mode of mtvec
trap_direct(self, cause, interrupt) ==
    [self EXCEPT !.csr.mcause = trap_cause(R, cause, interrupt),
                 !.pc = and(self.csr.mtvec, sign_extended_byte(R, 252))]

\* Core::trap
trap(self, cause, interrupt) ==
    LET base == and(self.csr.mtvec, sign_extended_byte(R, 252))
        address ==
            IF BitAnd(byte(self.csr.mtvec), 1) = 1
            THEN add_unsigned(base,
                    zero_extended_half(R, <<(4 * cause) % 256, (4 * cause) \div 256>>))
            ELSE base
    IN  [self EXCEPT !.csr.mcause = trap_cause(R, cause, interrupt), !.pc = address]

(***************************************************************************)
(* Core::execute.  An outcome is the core and the memory the call leaves   *)
(* and what it returns: "None" or Some(trap) without ext-csr, "()" with    *)
(* ext-csr, "panic" when the call panics instead of returning.             *)
(***************************************************************************)
Traps == {"InstructionMisaligned", "IllegalInstruction", "SystemCall", "Breakpoint"}

\* the end of the match: () with ext-csr, else the trailing None
Returns(self, m) == [core |-> self, mmu |-> m, ret |-> IF ext_csr THEN "()" ELSE "None"]
Panics(self, m) == [core |-> self, mmu |-> m, ret |-> "panic"]

\* trap!(Illegal Instruction; self)
trap_IllegalInstruction(self, m) ==
    IF ext_csr THEN Returns(trap(self, 2, FALSE), m)
    ELSE [core |-> self, mmu |-> m, ret |-> "IllegalInstruction"]

\* trap!(System Call)
trap_SystemCall(self, m) ==
    IF ext_csr THEN Panics(self, m)
    ELSE [core |-> self, mmu |-> m, ret |-> "SystemCall"]

\* a breakpoint that steps over the instruction
trap_Breakpoint_stepping(self, m) ==
    [core |-> step(self), mmu |-> m, ret |-> "Breakpoint"]

\* trap!(Breakpoint; self)
trap_Breakpoint(self, m) ==
    IF ext_csr THEN Returns(trap([self EXCEPT !.csr.mtval = self.pc], 3, FALSE), m)
    ELSE [core |-> self, mmu |-> m, ret |-> "Breakpoint"]

\* if c { R::zero_extended_byte(1) } else { R::zero_extended_byte(0) }
Flag(c) == IF c THEN zero_extended_byte(R, 1) ELSE zero_extended_byte(R, 0)

\* R::sign_extended_word(Register32(..).op(Register32(..)).word()), given the
\* Register32 the operation returned
W(result) == sign_extended_word(R, word(result))

\* the end of an arm  self.set(destination, value); self.step()
Arm(self, m, destination_, value) == Returns(step(set(self, destination_, value)), m)

\* the shift amount the immediate shifts use: immediate.and(zero_extended_byte(0x0E))
ShiftMask(immediate) == and(immediate, zero_extended_byte(TypeOf(immediate), 14))

\* opcode 0b0110011: ADD SUB SLT SLTU XOR OR AND SLL SRL SRA, and the M extension
execute_OP(self, m, instruction, funct3, funct7) ==
    LET v == R_decode(instruction)
        a == get(self, v.source1)
        b == get(self, v.source2)
    IN  CASE funct3 = 0 /\ funct7 = 0 -> Arm(self, m, v.destination, add_unsigned(a, b))
          [] funct3 = 0 /\ funct7 = 32 -> Arm(self, m, v.destination, sub_unsigned(a, b))
          [] funct3 = 2 /\ funct7 = 0 -> Arm(self, m, v.destination, Flag(lt_signed(a, b)))
          [] funct3 = 3 /\ funct7 = 0 -> Arm(self, m, v.destination, Flag(lt_unsigned(a, b)))
          [] funct3 = 4 /\ funct7 = 0 -> Arm(self, m, v.destination, xor(a, b))
          [] funct3 = 6 /\ funct7 = 0 -> Arm(self, m, v.destination, or(a, b))
          [] funct3 = 7 /\ funct7 = 0 -> Arm(self, m, v.destination, and(a, b))
          [] funct3 = 1 /\ funct7 = 0 -> Arm(self, m, v.destination, shl(a, b))
          [] funct3 = 5 /\ funct7 = 0 -> Arm(self, m, v.destination, shr(a, b))
          [] funct3 = 5 /\ funct7 = 32 -> Arm(self, m, v.destination, sha(a, b))
          \* MUL MULH MULHSU MULHU DIV DIVU REM REMU (cfg ext-m)
          [] ext_m /\ funct3 = 0 /\ funct7 = 1 -> Arm(self, m, v.destination, mul(a, b))
          [] ext_m /\ funct3 = 1 /\ funct7 = 1 -> Arm(self, m, v.destination, mulh(a, b))
          [] ext_m /\ funct3 = 2 /\ funct7 = 1 -> Arm(self, m, v.destination, mulhsu(a, b))
          [] ext_m /\ funct3 = 3 /\ funct7 = 1 -> Arm(self, m, v.destination, mulhu(a, b))
          [] ext_m /\ funct3 = 4 /\ funct7 = 1 -> Arm(self, m, v.destination, div(a, b))
          [] ext_m /\ funct3 = 5 /\ funct7 = 1 -> Arm(self, m, v.destination, divu(a, b))
          [] ext_m /\ funct3 = 6 /\ funct7 = 1 -> Arm(self, m, v.destination, rem(a, b))
          [] ext_m /\ funct3 = 7 /\ funct7 = 1 -> Arm(self, m, v.destination, remu(a, b))
          [] OTHER -> trap_IllegalInstruction(self, m)

\* opcode 0b0111011: ADDW SUBW SLLW SRLW SRAW, and the M extension
execute_OP_32(self, m, instruction, funct3, funct7) ==
    LET v == R_decode(instruction)
        a == word(get(self, v.source1))
        b == word(get(self, v.source2))
    IN  CASE funct3 = 0 /\ funct7 = 0 ->
                Arm(self, m, v.destination, W(add_unsigned(a, b)))
          [] funct3 = 0 /\ funct7 = 32 ->
                Arm(self, m, v.destination, W(sub_unsigned(a, b)))
          [] funct3 = 1 /\ funct7 = 0 /\ WIDTH(R) # "Bits32" ->
                Arm(self, m, v.destination, W(shl(a, b)))
          [] funct3 = 5 /\ funct7 = 0 /\ WIDTH(R) # "Bits32" ->
                Arm(self, m, v.destination, W(shr(a, b)))
          [] funct3 = 5 /\ funct7 = 32 /\ WIDTH(R) # "Bits32" ->
                Arm(self, m, v.destination, W(sha(a, b)))
          \* MULW DIVW DIVUW REMW REMUW (cfg ext-m)
          [] ext_m /\ funct3 = 0 /\ funct7 = 1 /\ WIDTH(R) = "Bits64" ->
                Arm(self, m, v.destination, W(mul(a, b)))
          [] ext_m /\ funct3 = 4 /\ funct7 = 1 -> Arm(self, m, v.destination, W(div(a, b)))
          [] ext_m /\ funct3 = 5 /\ funct7 = 1 -> Arm(self, m, v.destination, W(divu(a, b)))
          [] ext_m /\ funct3 = 6 /\ funct7 = 1 -> Arm(self, m, v.destination, W(rem(a, b)))
          [] ext_m /\ funct3 = 7 /\ funct7 = 1 -> Arm(self, m, v.destination, W(remu(a, b)))
          [] OTHER -> trap_IllegalInstruction(self, m)

\* opcode 0b0010011: ADDI SLTI SLTIU XORI ORI ANDI SLLI SRLI SRAI
execute_OP_IMM(self, m, instruction, funct3) ==
    LET v == I_decode(R, instruction)
        a == get(self, v.source)
        b == v.immediate
    IN  CASE funct3 = 0 -> Arm(self, m, v.destination, add_signed(a, b))
          [] funct3 = 2 -> Arm(self, m, v.destination, Flag(lt_signed(a, b)))
          [] funct3 = 3 -> Arm(self, m, v.destination, Flag(lt_unsigned(a, b)))
          [] funct3 = 4 -> Arm(self, m, v.destination, xor(a, b))
          [] funct3 = 6 -> Arm(self, m, v.destination, or(a, b))
          [] funct3 = 7 -> Arm(self, m, v.destination, and(a, b))
          [] funct3 = 1 -> Arm(self, m, v.destination, shl(a, ShiftMask(b)))
          [] funct3 = 5 /\ BitAnd(instruction[4], 64) = 0 ->
                Arm(self, m, v.destination, shr(a, ShiftMask(b)))
          [] funct3 = 5 /\ BitAnd(instruction[4], 64) # 0 ->
                Arm(self, m, v.destination, sha(a, ShiftMask(b)))
          [] OTHER -> trap_IllegalInstruction(self, m)

\* opcode 0b0011011: ADDIW SLLIW SRLIW SRAIW
execute_OP_IMM_32(self, m, instruction, funct3) ==
    LET v == I_decode(R, instruction)
        v32 == I_decode("Register32", instruction)
        a == word(get(self, v.source))
        b == ShiftMask(word(v.immediate))
        illegal == BitAnd(byte(v.immediate), 32) # 0
    IN  CASE funct3 = 0 ->
                Arm(self, m, v32.destination,
                    W(add_signed(word(get(self, v32.source)), v32.immediate)))
          [] funct3 = 1 /\ WIDTH(R) # "Bits32" ->
                IF illegal THEN trap_IllegalInstruction(self, m)
                ELSE Arm(self, m, v.destination, W(shl(a, b)))
          [] funct3 = 5 /\ BitAnd(instruction[4], 64) = 0 /\ WIDTH(R) # "Bits32" ->
                IF illegal THEN trap_IllegalInstruction(self, m)
                ELSE Arm(self, m, v.destination, W(shr(a, b)))
          [] funct3 = 5 /\ BitAnd(instruction[4], 64) # 0 /\ WIDTH(R) # "Bits32" ->
                IF illegal THEN trap_IllegalInstruction(self, m)
                ELSE Arm(self, m, v.destination, W(sha(a, b)))
          [] OTHER -> trap_IllegalInstruction(self, m)

\* [mmu.get(address.unsigned()), mmu.get(address.append(1)), ...]: n bytes, or
\* Panic when an append overflows in a build that checks
LoadBytes(m, address, n) ==
    IF \E k \in 1..(n - 1) : append_panics(address, k) THEN Panic
    ELSE [k \in 1..n |->
            Mmu_get(m, IF k = 1 THEN unsigned(address) ELSE append(address, k - 1))]

\* opcode 0b0000011: LB LH LW LBU LHU LWU LD
execute_LOAD(self, m, instruction, funct3) ==
    LET v == I_decode(R, instruction)
        address == add_signed(get(self, v.source), v.immediate)
        load(n, extend(_, _)) ==
            LET bytes == LoadBytes(m, address, n)
                value == IF IsPanic(bytes) THEN Panic
                         ELSE extend(R, IF n = 1 THEN bytes[1] ELSE bytes)
            IN  IF IsPanic(value) THEN Panics(self, m)
                ELSE Returns(step(set(self, v.destination, value)), m)
    IN  CASE funct3 = 0 -> load(1, sign_extended_byte)
          [] funct3 = 4 -> load(1, zero_extended_byte)
          [] funct3 = 1 -> load(2, sign_extended_half)
          [] funct3 = 5 -> load(2, zero_extended_half)
          [] funct3 = 2 -> load(4, sign_extended_word)
          [] funct3 = 6 /\ WIDTH(R) # "Bits32" -> load(4, zero_extended_word)
          [] funct3 = 3 -> load(8, sign_extended_double)
          [] OTHER -> trap_IllegalInstruction(self, m)

\* mmu.set(address.unsigned(), b[0]); mmu.set(address.append(1), b[1]); ... from
\* byte k on: the memory left, and whether an append panicked on the way
RECURSIVE StoreBytes(_, _, _, _)
StoreBytes(m, address, bytes, k) ==
    IF k >= Len(bytes) THEN [mmu |-> m, panicked |-> FALSE]
    ELSE IF k > 0 /\ append_panics(address, k) THEN [mmu |-> m, panicked |-> TRUE]
    ELSE StoreBytes(
            Mmu_set(m, IF k = 0 THEN unsigned(address) ELSE append(address, k),
                    bytes[k + 1]),
            address, bytes, k + 1)

\* opcode 0b0100011: SB SH SW
execute_STORE(self, m, instruction, funct3) ==
    LET v == S_decode(R, instruction)
        address == add_signed(get(self, v.source1), v.immediate)
        store(bytes) ==
            LET done == StoreBytes(m, address, bytes, 0)
            IN  IF done.panicked THEN Panics(self, done.mmu)
                ELSE Returns(step(self), done.mmu)
    IN  CASE funct3 = 0 -> store(<<byte(get(self, v.source2))>>)
          [] funct3 = 1 -> store(half(get(self, v.source2)))
          [] funct3 = 2 -> store(word(get(self, v.source2)))
          [] OTHER -> trap_IllegalInstruction(self, m)

\* opcode 0b1101111: JAL
execute_JAL(self, m, instruction) ==
    LET v == J_decode(R, instruction)
        linked == set(self, v.destination,
                      add_unsigned(self.pc, zero_extended_byte(R, 4)))
    IN  Returns([linked EXCEPT !.pc = add_signed(self.pc, v.immediate)], m)

\* opcode 0b1100111: JALR
execute_JALR(self, m, instruction, funct3) ==
    LET v == I_decode(R, instruction)
        to_set == add_signed(get(self, v.source), v.immediate)
        linked == set(self, v.destination,
                      add_unsigned(self.pc, zero_extended_byte(R, 4)))
    IN  IF funct3 = 0 THEN Returns([linked EXCEPT !.pc = to_set], m)
        ELSE trap_IllegalInstruction(self, m)

\* opcode 0b1100011: BEQ BNE BLT BLTU BGE BGEU
execute_BRANCH(self, m, instruction, funct3) ==
    LET v == B_decode(R, instruction)
        a == get(self, v.source1)
        b == get(self, v.source2)
        branch(taken) ==
            IF taken THEN Returns([self EXCEPT !.pc = add_signed(self.pc, v.immediate)], m)
            ELSE Returns(step(self), m)
    IN  CASE funct3 = 0 -> branch(eq(a, b))
          [] funct3 = 1 -> branch(neq(a, b))
          [] funct3 = 4 -> branch(lt_signed(a, b))
          [] funct3 = 6 -> branch(lt_unsigned(a, b))
          [] funct3 = 5 -> branch(gte_signed(a, b))
          [] funct3 = 7 -> branch(gte_unsigned(a, b))
          [] OTHER -> trap_IllegalInstruction(self, m)

\* opcode 0b1110011: ECALL EBREAK, and with ext-csr CSRRW CSRRS CSRRC CSRRWI CSRRSI CSRRCI
execute_SYSTEM(self, m, instruction, funct3) ==
    LET v == C_decode(instruction)
        temporary == get_csr(self, v.csr)
        \* get_csr(csr).expect(..): an Err panics, as unimplemented!() does
        failed == IsPanic(temporary) \/ IsErr(temporary)
        immediate == zero_extended_byte(R, v.source)
        \* CSRRW, CSRRWI
        write(value) ==
            IF v.destination # 0
            THEN IF failed THEN Panics(self, m)
                 ELSE Returns(step(set(set_csr(self, v.csr, value),
                                       v.destination, temporary)), m)
            ELSE Returns(step(set_csr(self, v.csr, value)), m)
        \* CSRRS, CSRRC, CSRRSI, CSRRCI
        modify(value) ==
            IF failed THEN Panics(self, m)
            ELSE IF v.source # 0
            THEN Returns(step(set(set_csr(self, v.csr, value),
                                  v.destination, temporary)), m)
            ELSE Returns(step(set(self, v.destination, temporary)), m)
    IN  CASE funct3 = 0 /\ BitAnd(instruction[3], 16) = 0 -> trap_SystemCall(self, m)
          [] funct3 = 0 /\ BitAnd(instruction[3], 16) # 0 -> trap_Breakpoint(self, m)
          [] ext_csr /\ funct3 = 1 -> write(get(self, v.source))
          [] ext_csr /\ funct3 = 2 -> modify(or(temporary, get(self, v.source)))
          [] ext_csr /\ funct3 = 3 -> modify(and(temporary, not(get(self, v.source))))
          [] ext_csr /\ funct3 = 5 -> write(immediate)
          [] ext_csr /\ funct3 = 6 -> modify(or(temporary, immediate))
          [] ext_csr /\ funct3 = 7 -> modify(and(temporary, not(immediate)))
          [] OTHER -> trap_IllegalInstruction(self, m)

\* opcode 0b0110111 LUI and 0b0010111 AUIPC
execute_LUI(self, m, instruction) ==
    LET v == U_decode(R, instruction)
    IN  Returns(step(set(self, v.destination, v.immediate)), m)
execute_AUIPC(self, m, instruction) ==
    LET v == U_decode(R, instruction)
    IN  Returns(step(set(self, v.destination, add_signed(self.pc, v.immediate))), m)

\* an execute that leaves the cycle counter alone
execute_uncounted(self, m, held) ==
    LET instruction == Mmu_fetch(held, self.pc)
        opcode == BitAnd(instruction[1], 127)
        funct3 == Shr8(BitAnd(instruction[2], 112), 4)
        funct7 == Shr8(BitAnd(instruction[4], 254), 1)
    IN  IF IsPanic(instruction) THEN Panics(self, m)
        ELSE CASE opcode = 51 -> execute_OP(self, m, instruction, funct3, funct7)
               [] opcode = 59 -> execute_OP_32(self, m, instruction, funct3, funct7)
               [] opcode = 19 -> execute_OP_IMM(self, m, instruction, funct3)
               [] opcode = 27 -> execute_OP_IMM_32(self, m, instruction, funct3)
               [] opcode = 55 -> execute_LUI(self, m, instruction)
               [] opcode = 23 -> execute_AUIPC(self, m, instruction)
               [] opcode = 3 -> execute_LOAD(self, m, instruction, funct3)
               [] opcode = 35 -> execute_STORE(self, m, instruction, funct3)
               [] opcode = 111 -> execute_JAL(self, m, instruction)
               [] opcode = 103 -> execute_JALR(self, m, instruction, funct3)
               [] opcode = 99 -> execute_BRANCH(self, m, instruction, funct3)
               [] opcode = 115 -> execute_SYSTEM(self, m, instruction, funct3)
               [] OTHER -> trap_IllegalInstruction(self, m)

\* Core::execute, where `held` are the 4 bytes the host's memory holds at pc
execute(self, m, held) ==
    LET instruction == Mmu_fetch(held, self.pc)
        opcode == BitAnd(instruction[1], 127)
        funct3 == Shr8(BitAnd(instruction[2], 112), 4)
        funct7 == Shr8(BitAnd(instruction[4], 254), 1)
        \* Increment the cycle counter
        counted ==
            IF ext_csr
            THEN [self EXCEPT !.csr.mcycle =
                    add_unsigned(self.csr.mcycle, zero_extended_byte("Register64", 1))]
            ELSE self
    IN  IF IsPanic(instruction) THEN Panics(self, m)
        ELSE CASE opcode = 51 -> execute_OP(counted, m, instruction, funct3, funct7)
               [] opcode = 59 -> execute_OP_32(counted, m, instruction, funct3, funct7)
               [] opcode = 19 -> execute_OP_IMM(counted, m, instruction, funct3)
               [] opcode = 27 -> execute_OP_IMM_32(counted, m, instruction, funct3)
               [] opcode = 55 -> execute_LUI(counted, m, instruction)
               [] opcode = 23 -> execute_AUIPC(counted, m, instruction)
               [] opcode = 3 -> execute_LOAD(counted, m, instruction, funct3)
               [] opcode = 35 -> execute_STORE(counted, m, instruction, funct3)
               [] opcode = 111 -> execute_JAL(counted, m, instruction)
               [] opcode = 103 -> execute_JALR(counted, m, instruction, funct3)
               [] opcode = 99 -> execute_BRANCH(counted, m, instruction, funct3)
               [] opcode = 115 -> execute_SYSTEM(counted, m, instruction, funct3)
               [] OTHER -> trap_IllegalInstruction(counted, m)

(***************************************************************************)
(* Instruction words, assembled from their fields as the ISA lays them out *)
(* (the inputs of the model; byte k + 1 holds instruction bits 8k..8k+7).  *)
(***************************************************************************)
EncR(opcode, funct3, funct7, rd, rs1, rs2) ==
    << opcode + 128 * (rd % 2),
       (rd \div 2) + 16 * funct3 + 128 * (rs1 % 2),
       (rs1 \div 2) + 16 * (rs2 % 16),
       (rs2 \div 16) + 2 * funct7 >>

\* imm in -2048..2047
EncI(opcode, funct3, rd, rs1, imm) ==
    EncR(opcode, funct3, (imm % 4096) \div 32, rd, rs1, (imm % 4096) % 32)

EncS(opcode, funct3, rs1, rs2, imm) ==
    EncR(opcode, funct3, (imm % 4096) \div 32, (imm % 4096) % 32, rs1, rs2)

\* offset even, in -4096..4094
EncB(funct3, rs1, rs2, offset) ==
    LET o == offset % 8192
    IN  EncR(99, funct3, ((o \div 4096) % 2) * 64 + ((o \div 32) % 64),
             ((o \div 2) % 16) * 2 + ((o \div 2048) % 2), rs1, rs2)

\* imm20 in 0..2^20 - 1: instruction bits 31..12
EncU(opcode, rd, imm20) ==
    << opcode + 128 * (rd % 2),
       (rd \div 2) + 16 * (imm20 % 16),
       (imm20 \div 16) % 256,
       imm20 \div 4096 >>

\* offset even, in -2^20..2^20 - 2
EncJ(rd, offset) ==
    LET o == offset % 2097152
    IN  EncU(111, rd, ((o \div 1048576) % 2) * 524288 + ((o \div 2) % 1024) * 512
                      + ((o \div 2048) % 2) * 256 + ((o \div 4096) % 256))

\* mnemonics of the instruction words the programs below are made of
ADD(rd, rs1, rs2) == EncR(51, 0, 0, rd, rs1, rs2)
SUB(rd, rs1, rs2) == EncR(51, 0, 32, rd, rs1, rs2)
ADDI(rd, rs1, imm) == EncI(19, 0, rd, rs1, imm)
SLL(rd, rs1, rs2) == EncR(51, 1, 0, rd, rs1, rs2)
SRL(rd, rs1, rs2) == EncR(51, 5, 0, rd, rs1, rs2)
SRA(rd, rs1, rs2) == EncR(51, 5, 32, rd, rs1, rs2)
SLLI(rd, rs1, shamt) == EncI(19, 1, rd, rs1, shamt)
SRLI(rd, rs1, shamt) == EncI(19, 5, rd, rs1, shamt)
SRAI(rd, rs1, shamt) == EncI(19, 5, rd, rs1, 1024 + shamt)
LUI(rd, imm20) == EncU(55, rd, imm20)
AUIPC(rd, imm20) == EncU(23, rd, imm20)
JAL(rd, offset) == EncJ(rd, offset)
JALR(rd, rs1, imm) == EncI(103, 0, rd, rs1, imm)
BEQ(rs1, rs2, offset) == EncB(0, rs1, rs2, offset)
BNE(rs1, rs2, offset) == EncB(1, rs1, rs2, offset)
BLT(rs1, rs2, offset) == EncB(4, rs1, rs2, offset)
BGE(rs1, rs2, offset) == EncB(5, rs1, rs2, offset)
BLTU(rs1, rs2, offset) == EncB(6, rs1, rs2, offset)
BGEU(rs1, rs2, offset) == EncB(7, rs1, rs2, offset)
LB(rd, rs1, imm) == EncI(3, 0, rd, rs1, imm)
LH(rd, rs1, imm) == EncI(3, 1, rd, rs1, imm)
LW(rd, rs1, imm) == EncI(3, 2, rd, rs1, imm)
LD(rd, rs1, imm) == EncI(3, 3, rd, rs1, imm)
LBU(rd, rs1, imm) == EncI(3, 4, rd, rs1, imm)
LHU(rd, rs1, imm) == EncI(3, 5, rd, rs1, imm)
LWU(rd, rs1, imm) == EncI(3, 6, rd, rs1, imm)
SB(rs2, rs1, imm) == EncS(35, 0, rs1, rs2, imm)
SH(rs2, rs1, imm) == EncS(35, 1, rs1, rs2, imm)
SW(rs2, rs1, imm) == EncS(35, 2, rs1, rs2, imm)
SD(rs2, rs1, imm) == EncS(35, 3, rs1, rs2, imm)
ADDW(rd, rs1, rs2) == EncR(59, 0, 0, rd, rs1, rs2)
SUBW(rd, rs1, rs2) == EncR(59, 0, 32, rd, rs1, rs2)
SLLW(rd, rs1, rs2) == EncR(59, 1, 0, rd, rs1, rs2)
SRLW(rd, rs1, rs2) == EncR(59, 5, 0, rd, rs1, rs2)
SRAW(rd, rs1, rs2) == EncR(59, 5, 32, rd, rs1, rs2)
ADDIW(rd, rs1, imm) == EncI(27, 0, rd, rs1, imm)
SLLIW(rd, rs1, shamt) == EncI(27, 1, rd, rs1, shamt)
SRLIW(rd, rs1, shamt) == EncI(27, 5, rd, rs1, shamt)
SRAIW(rd, rs1, shamt) == EncI(27, 5, rd, rs1, 1024 + shamt)
MUL(rd, rs1, rs2) == EncR(51, 0, 1, rd, rs1, rs2)
MULHSU(rd, rs1, rs2) == EncR(51, 2, 1, rd, rs1, rs2)
MULHU(rd, rs1, rs2) == EncR(51, 3, 1, rd, rs1, rs2)
DIV(rd, rs1, rs2) == EncR(51, 4, 1, rd, rs1, rs2)
REMU(rd, rs1, rs2) == EncR(51, 7, 1, rd, rs1, rs2)
MULH(rd, rs1, rs2) == EncR(51, 1, 1, rd, rs1, rs2)
DIVU(rd, rs1, rs2) == EncR(51, 5, 1, rd, rs1, rs2)
REM(rd, rs1, rs2) == EncR(51, 6, 1, rd, rs1, rs2)
MULW(rd, rs1, rs2) == EncR(59, 0, 1, rd, rs1, rs2)
DIVW(rd, rs1, rs2) == EncR(59, 4, 1, rd, rs1, rs2)
DIVUW(rd, rs1, rs2) == EncR(59, 5, 1, rd, rs1, rs2)
REMW(rd, rs1, rs2) == EncR(59, 6, 1, rd, rs1, rs2)
REMUW(rd, rs1, rs2) == EncR(59, 7, 1, rd, rs1, rs2)
CSRRW(rd, address, rs1) == EncI(115, 1, rd, rs1, address)
CSRRS(rd, address, rs1) == EncI(115, 2, rd, rs1, address)
CSRRC(rd, address, rs1) == EncI(115, 3, rd, rs1, address)
CSRRWI(rd, address, uimm) == EncI(115, 5, rd, uimm, address)
CSRRSI(rd, address, uimm) == EncI(115, 6, rd, uimm, address)
CSRRCI(rd, address, uimm) == EncI(115, 7, rd, uimm, address)
ECALL == EncI(115, 0, 0, 0, 0)
EBREAK == EncI(115, 0, 0, 0, 1)

(***************************************************************************)
(* Inputs: register values, entry addresses, programs.                     *)
(***************************************************************************)
\* 64-bit patterns the host passes to Core::set, cut to the width of the register:
\* 1, -1, 0x100, 0xDEADBEEF, 0x80000000, 0x0123456789ABCDEF
One == <<1, 0, 0, 0, 0, 0, 0, 0>>
MinusOne == <<255, 255, 255, 255, 255, 255, 255, 255>>
X100 == <<0, 1, 0, 0, 0, 0, 0, 0>>
DeadBeef == <<239, 190, 173, 222, 0, 0, 0, 0>>
Bit31 == <<0, 0, 0, 128, 0, 0, 0, 0>>
Digits == <<239, 205, 171, 137, 103, 69, 35, 1>>

\* R([u8; N]) of the low N bytes of a pattern
HostValue(T, pattern) == [k \in 1..ByteLen(T) |-> pattern[k]]

\* a host: the indices and the patterns it calls Core::set with, the program it
\* loads at the entry address (none: its memory holds any word of `code` at pc),
\* the calls of Core::execute it makes, the entry address it constructs the core with
Host(indices, patterns) ==
    [indices |-> indices, values |-> patterns, program |-> <<>>, steps |-> MaxSteps,
     entry |-> 0]

\* a host that loads `program` and runs it
Running(indices, patterns, program) ==
    [Host(indices, patterns) EXCEPT !.program = program, !.steps = MaxRun]

\* the memory of a host that loaded the words of `program` from `address` on
Image(T, address, program) ==
    LET digits == ByteLen(T) \div 2
        at(i) == wrapping_add(IntLit(address, digits), IntLit(i, digits))
        offsets == 0..(4 * Len(program) - 1)
    IN  [a \in { at(i) : i \in offsets } |->
            LET i == CHOOSE i \in offsets : at(i) = a
            IN  program[(i \div 4) + 1][(i % 4) + 1]]

\* hart ids
HartIds == {0}

\* the record of a call: which operation, its arguments, the state it started from
Call(op, index, value, instruction) ==
    [op |-> op, index |-> index, value |-> value, instruction |-> instruction,
     registers |-> registers, pc |-> pc, csr |-> csr, mmu |-> mmu]

(***************************************************************************)
(* The state machine: Core::new, then calls of Core::set and Core::execute *)
(* by the host.  A panic ends the behaviour.                               *)
(***************************************************************************)
\* entries: the entry addresses; harts: the hart ids
InitWith(types, csrs, ms, checks, entries, harts, programs, hosts) ==
    /\ R \in types
    /\ ext_csr \in csrs
    /\ ext_m \in ms
    /\ overflow_checks \in checks
    /\ code \in programs
    /\ \E address \in entries, hart \in harts, h \in hosts :
         LET self == Core_new(R, ext_csr, IntLit(address, ByteLen(R) \div 2),
                              IntLit(hart, ByteLen(R) \div 2))
         IN  /\ host = [h EXCEPT !.entry = address]
             /\ mmu = Image(R, address, h.program)
             /\ registers = self.registers
             /\ pc = self.pc
             /\ csr = self.csr
             /\ last = [op |-> "new", index |-> 0, value |-> default(R),
                        instruction |-> <<0, 0, 0, 0>>, registers |-> self.registers,
                        pc |-> self.pc, csr |-> self.csr,
                        mmu |-> Image(R, address, h.program)]
    /\ ret = "new"
    /\ nsteps = 0
    /\ nsets = 0

\* the host calls core.set(index, value)
Set ==
    /\ ret # "panic"
    /\ nsets < MaxSets
    /\ \E index \in host.indices, pattern \in host.values :
         LET value == HostValue(R, pattern)
             self == set([registers |-> registers, pc |-> pc, csr |-> csr], index, value)
         IN  /\ registers' = self.registers
             /\ last' = Call("set", index, value, <<0, 0, 0, 0>>)
    /\ nsets' = nsets + 1
    /\ UNCHANGED <<R, ext_csr, ext_m, overflow_checks, pc, csr, mmu, ret, nsteps, code, host>>

\* the core and the memory as a call of execute on the word `held` left them
Executed(out, held) ==
    /\ registers' = out.core.registers
    /\ pc' = out.core.pc
    /\ csr' = out.core.csr
    /\ mmu' = out.mmu
    /\ ret' = out.ret
    /\ last' = Call("execute", 0, default(R), held)

\* the words the host's memory may hold at pc
Fetchable == IF host.program = <<>> THEN code ELSE {Mmu_held(mmu, pc)}

\* the host calls core.execute(&mut mmu)
Execute ==
    /\ ret # "panic"
    /\ nsteps < host.steps
    /\ \E held \in Fetchable :
         Executed(execute([registers |-> registers, pc |-> pc, csr |-> csr], mmu, held),
                  held)
    /\ nsteps' = nsteps + 1
    /\ UNCHANGED <<R, ext_csr, ext_m, overflow_checks, nsets, code, host>>

Next == Set \/ Execute

(***************************************************************************)
(* The ISA's reading of an instruction word and of register values, used   *)
(* to state the properties: fields by bit position, immediates as          *)
(* integers, register arithmetic byte by byte.                             *)
(***************************************************************************)
\* bit n (0..31) of the instruction word
InstrBit(instruction, n) == (instruction[(n \div 8) + 1] \div (2 ^ (n % 8))) % 2

\* instruction bits hi..lo as a number
RECURSIVE Field(_, _, _)
Field(instruction, hi, lo) ==
    IF lo > hi THEN 0
    ELSE InstrBit(instruction, lo) + 2 * Field(instruction, hi, lo + 1)

IsaOpcode(instruction) == Field(instruction, 6, 0)
IsaRd(instruction) == Field(instruction, 11, 7)
IsaFunct3(instruction) == Field(instruction, 14, 12)
IsaRs1(instruction) == Field(instruction, 19, 15)
IsaRs2(instruction) == Field(instruction, 24, 20)
IsaFunct7(instruction) == Field(instruction, 31, 25)

\* the sign-extended immediates, as integers
IsaImmI(instruction) ==
    Field(instruction, 31, 20) - 4096 * InstrBit(instruction, 31)
IsaImmS(instruction) ==
    Field(instruction, 31, 25) * 32 + Field(instruction, 11, 7)
        - 4096 * InstrBit(instruction, 31)
IsaImmB(instruction) ==
    InstrBit(instruction, 7) * 2048 + Field(instruction, 30, 25) * 32
        + Field(instruction, 11, 8) * 2 - 4096 * InstrBit(instruction, 31)

\* the integer n, |n| < 2^23, as a two's-complement register of `len` bytes
IsaReg(n, len) ==
    [k \in 1..len |->
        IF k <= 3 THEN (n \div (256 ^ (k - 1))) % 256
        ELSE IF n < 0 THEN 255 ELSE 0]

\* a + b modulo 2^XLEN on byte arrays
IsaAdd(a, b) ==
    LET c[k \in 0..Len(a)] ==
            IF k = 0 THEN 0 ELSE (a[k] + b[k] + c[k - 1]) \div 256
    IN  [k \in 1..Len(a) |-> (a[k] + b[k] + c[k - 1]) % 256]

\* a + n modulo 2^XLEN for an integer n
IsaAddInt(a, n) == IsaAdd(a, IsaReg(n, Len(a)))

\* a < b as unsigned numbers, and as two's-complement numbers
RECURSIVE IsaLtFrom(_, _, _)
IsaLtFrom(a, b, k) ==
    IF k = 0 THEN FALSE
    ELSE IF a[k] # b[k] THEN a[k] < b[k]
    ELSE IsaLtFrom(a, b, k - 1)
IsaLtU(a, b) == IsaLtFrom(a, b, Len(a))
IsaLtS(a, b) ==
    LET negative(x) == x[Len(x)] >= 128
    IN  IF negative(a) # negative(b) THEN negative(a) ELSE IsaLtU(a, b)

\* a register as its bits, least significant first, and back
IsaBits(a) ==
    [k \in 1..(8 * Len(a)) |-> (a[((k - 1) \div 8) + 1] \div (2 ^ ((k - 1) % 8))) % 2]
IsaFromBits(b) ==
    [k \in 1..(Len(b) \div 8) |->
        b[8 * k - 7] + 2 * b[8 * k - 6] + 4 * b[8 * k - 5] + 8 * b[8 * k - 4]
            + 16 * b[8 * k - 3] + 32 * b[8 * k - 2] + 64 * b[8 * k - 1] + 128 * b[8 * k]]

\* a << s, and a >> s filling with zeros (logical) or with the sign (arithmetic)
IsaShl(a, s) ==
    LET b == IsaBits(a)
    IN  IsaFromBits([k \in 1..Len(b) |-> IF k - s >= 1 THEN b[k - s] ELSE 0])
IsaShr(a, s, arithmetic) ==
    LET b == IsaBits(a)
    IN  IsaFromBits([k \in 1..Len(b) |->
            IF k + s <= Len(b) THEN b[k + s]
            ELSE IF arithmetic THEN b[Len(b)] ELSE 0])

\* a - b modulo 2^XLEN
IsaSub(a, b) ==
    IsaAdd(IsaAdd(a, [k \in 1..Len(b) |-> 255 - b[k]]), IsaReg(1, Len(a)))

\* the low n bytes of a register; bytes widened to len bytes by sign or by zeros
IsaLow(a, n) == [k \in 1..n |-> a[k]]
IsaSext(bytes, len) ==
    [k \in 1..len |->
        IF k <= Len(bytes) THEN bytes[k]
        ELSE IF bytes[Len(bytes)] >= 128 THEN 255 ELSE 0]
IsaZext(bytes, len) == [k \in 1..len |-> IF k <= Len(bytes) THEN bytes[k] ELSE 0]

\* the byte the memory m holds at the address a register value names, and the
\* n bytes from there on (addresses wrap at 2^XLEN)
IsaMemByte(m, address) == Mmu_get(m, from_le_bytes(address))
IsaMemBytes(m, address, n) ==
    [k \in 1..n |-> IsaMemByte(m, IsaAddInt(address, k - 1))]

\* memory after is memory before with `bytes` written from `address` on
IsaStored(before, after, address, bytes) ==
    LET written == { from_le_bytes(IsaAddInt(address, k - 1)) : k \in 1..Len(bytes) }
    IN  /\ IsaMemBytes(after, address, Len(bytes)) = bytes
        /\ \A a \in (DOMAIN before \cup DOMAIN after) \ written :
             Mmu_get(after, a) = Mmu_get(before, a)

\* registers after are registers before with `value` written to rd (x0 stays 0)
IsaWritten(before, after, rd, value) ==
    \A index \in 0..31 :
        after[index] = IF index = rd /\ index # 0 THEN value ELSE before[index]

\* the call returned without a trap
NoTrap == ret \in {"None", "()"}

\* the last call was execute and it fetched and dispatched its instruction
Dispatched == last.op = "execute" /\ ~IsPanic(Mmu_fetch(last.instruction, last.pc))

(***************************************************************************)
(* Programs and specifications.  Every specification is the same state     *)
(* machine; they differ in the configuration of the hart and in the words  *)
(* the host's memory holds.                                                *)
(***************************************************************************)
\* a program touching every part of the hart: arithmetic, a load and a store,
\* jumps, a trap, with x0 as the destination wherever there is one
ProgramMixed ==
    { ADDI(1, 0, 5), ADDI(0, 1, 5), ADD(0, 1, 1), LUI(0, 74565), SW(1, 1, 0),
      LW(0, 1, 0), JAL(0, 8), JALR(0, 1, 0), EBREAK }

Init ==
    InitWith(RegisterTypes, BOOLEAN, {FALSE}, {FALSE}, {0}, HartIds, {ProgramMixed},
             {Host({0, 1}, {One, DeadBeef})})

Spec == Init /\ [][Next]_vars

\* trapping words (ECALL and EBREAK, bare and with other fields set, words no
\* arm matches) next to words that run
ProgramTrap ==
    { ECALL, EBREAK, EncI(115, 0, 1, 2, 0), EncI(115, 0, 3, 1, 1),
      <<0, 0, 0, 0>>, <<255, 255, 255, 255>>, SD(1, 2, 0), EncI(15, 0, 0, 0, 0),
      MULH(3, 1, 2), EncI(115, 1, 1, 0, 768), EncR(51, 0, 16, 3, 1, 2),
      ADDI(1, 0, 5), LD(3, 1, 0), MUL(3, 1, 1), REM(3, 1, 2), MULW(3, 1, 2),
      DIVU(3, 1, 1), DIVW(3, 1, 1) }

InitTrap ==
    InitWith(RegisterTypes, {FALSE}, BOOLEAN, {FALSE}, {0}, HartIds, {ProgramTrap},
             {Host({1}, {One, X100})})

SpecTrap == InitTrap /\ [][Next]_vars

\* the six branches, on operands of either sign and on x0, with offsets over the
\* range of the B-immediate
ProgramBranch ==
    { BEQ(0, 0, -4), BNE(0, 0, 8), BEQ(1, 2, 8), BNE(1, 2, -4), BLT(1, 2, 2048),
      BGE(1, 2, -4096), BLTU(1, 2, 8), BGEU(1, 2, 4094), BLT(1, 0, 8), BGEU(0, 1, -4) }

InitBranch ==
    InitWith(RegisterTypes, BOOLEAN, {FALSE}, {FALSE}, {0}, HartIds, {ProgramBranch},
             {Host({1, 2}, {One, MinusOne})})

SpecBranch == InitBranch /\ [][Next]_vars

\* jumps, and an instruction to run where they land
ProgramJump ==
    { JALR(0, 1, 1), JALR(3, 1, 0), JALR(1, 1, -4), JAL(1, 8), JAL(0, -2),
      BEQ(0, 0, 6), ADDI(1, 0, 5) }

InitJump ==
    InitWith(RegisterTypes, BOOLEAN, {FALSE}, {FALSE}, {0}, HartIds, {ProgramJump},
             {Host({1}, {One, X100, MinusOne})})

SpecJump == InitJump /\ [][Next]_vars

\* the RV64 word instructions, those of the M extension among them, and the
\* immediate shifts
ProgramW ==
    { ADDW(3, 1, 2), SUBW(3, 1, 2), SLLW(3, 1, 2), SRLW(3, 1, 2), SRAW(3, 1, 2),
      ADDIW(3, 1, -1), SLLIW(3, 1, 1), SRLIW(3, 1, 2), SRAIW(3, 1, 4),
      SLLI(3, 1, 1), SLLI(3, 1, 2), SRLI(3, 1, 4), SRAI(3, 1, 31), SRAI(1, 1, 8),
      MULW(3, 1, 2), DIVW(3, 1, 2), REMUW(3, 1, 2) }

InitW ==
    InitWith(RegisterTypes, {FALSE}, BOOLEAN, {FALSE}, {0}, HartIds, {ProgramW},
             {Host({1, 2}, {One, DeadBeef, Bit31, Digits})})

SpecW == InitW /\ [][Next]_vars

\* stores and loads of every width, two of them at the top of the address space
ProgramMem ==
    { SB(1, 2, 0), SH(1, 2, 0), SW(1, 2, 0), SD(1, 2, 0),
      LB(3, 2, 0), LH(3, 2, 0), LW(3, 2, 0), LD(3, 2, 0),
      LBU(3, 2, 0), LHU(3, 2, 0), LWU(3, 2, 0),
      SH(1, 0, -1), LW(3, 0, -2), SW(2, 1, 4) }

InitMem ==
    InitWith(RegisterTypes, {FALSE}, {FALSE}, BOOLEAN, {0}, HartIds, {ProgramMem},
             {Host({1, 2}, {X100, DeadBeef, Digits})})

SpecMem == InitMem /\ [][Next]_vars

(***************************************************************************)
(* C1.  x0 is hardwired to zero: in every reachable state get(0) is the    *)
(* all-zero register, and set(0, v) leaves all 32 registers as they were.  *)
(***************************************************************************)
C1_X0Immutable ==
    /\ get([registers |-> registers], 0) = [k \in 1..ByteLen(R) |-> 0]
    /\ (last.op = "set" /\ last.index = 0) => registers = last.registers

\* set(0, v) with v nonzero, called after an instruction ran and with a nonzero
\* register in the file
C1_Witness ==
    /\ last.op = "set" /\ last.index = 0
    /\ \E k \in 1..ByteLen(R) : last.value[k] # 0
    /\ nsteps > 0
    /\ \E index \in 1..31 : registers[index] # default(R)

(***************************************************************************)
(* C2.  Without ext-csr execute() returns the trap as a value: a word that *)
(* matches no arm returns IllegalInstruction, ECALL (funct3 = 0 SYSTEM,    *)
(* i[2] & 0x10 = 0) returns SystemCall, EBREAK (i[2] & 0x10 # 0) returns   *)
(* Breakpoint, in each case with pc and all 32 registers as before the     *)
(* call; every other instruction returns no trap.                          *)
(***************************************************************************)
\* the (opcode, funct3, funct7) an arm of Core::execute matches
HasHandler(instruction) ==
    LET opcode == IsaOpcode(instruction)
        funct3 == IsaFunct3(instruction)
        funct7 == IsaFunct7(instruction)
        wide == WIDTH(R) # "Bits32"
    IN  \/ opcode = 51 /\ <<funct3, funct7>> \in
              { <<0, 0>>, <<0, 32>>, <<2, 0>>, <<3, 0>>, <<4, 0>>, <<6, 0>>,
                <<7, 0>>, <<1, 0>>, <<5, 0>>, <<5, 32>> }
        \/ opcode = 59 /\ <<funct3, funct7>> \in {<<0, 0>>, <<0, 32>>}
        \/ opcode = 59 /\ wide /\ <<funct3, funct7>> \in {<<1, 0>>, <<5, 0>>, <<5, 32>>}
        \/ ext_m /\ opcode = 51 /\ funct7 = 1
        \/ ext_m /\ opcode = 59 /\ funct7 = 1 /\ (funct3 \in 4..7 \/ (wide /\ funct3 = 0))
        \/ opcode = 19
        \/ opcode = 27 /\ (funct3 = 0 \/ (wide /\ funct3 \in {1, 5}))
        \/ opcode \in {55, 23, 111}
        \/ opcode = 3 /\ (funct3 \in 0..5 \/ (wide /\ funct3 = 6))
        \/ opcode = 35 /\ funct3 \in 0..2
        \/ opcode = 103 /\ funct3 = 0
        \/ opcode = 99 /\ funct3 \in {0, 1, 4, 5, 6, 7}
        \/ opcode = 115 /\ funct3 = 0
        \/ ext_csr /\ opcode = 115 /\ funct3 \in {1, 2, 3, 5, 6, 7}

IsSystem0(instruction) == IsaOpcode(instruction) = 115 /\ IsaFunct3(instruction) = 0
IsEcall(instruction) == IsSystem0(instruction) /\ InstrBit(instruction, 20) = 0
IsEbreak(instruction) == IsSystem0(instruction) /\ InstrBit(instruction, 20) = 1

C2_TrapAsValue ==
    (~ext_csr /\ Dispatched) =>
        LET instruction == last.instruction
        IN  /\ ~HasHandler(instruction) => ret = "IllegalInstruction"
            /\ IsEcall(instruction) => ret = "SystemCall"
            /\ IsEbreak(instruction) => ret = "Breakpoint"
            \* any other instruction returns no trap: what it returns is None
            /\ (HasHandler(instruction) /\ ~IsSystem0(instruction)) =>
                   ret \notin Traps /\ (ret # "panic" => ret = "None")
            /\ ret \in Traps =>
                   /\ pc = last.pc
                   /\ \A index \in 0..31 : registers[index] = last.registers[index]

\* an EBREAK with other fields set returned Breakpoint, on a hart whose pc and
\* registers had moved from their initial values
C2_Witness ==
    /\ ~ext_csr /\ Dispatched
    /\ last.instruction = EncI(115, 0, 3, 1, 1)
    /\ ret = "Breakpoint"
    /\ last.pc # default(R)
    /\ \E index \in 1..31 : last.registers[index] # default(R)

(***************************************************************************)
(* C3.  execute() called with a pc that is not a multiple of 4 raises      *)
(* InstructionMisaligned (returned without ext-csr; taken as cause 0 with  *)
(* mtval = pc with ext-csr) and does not execute the instruction there.    *)
(***************************************************************************)
C3_Misaligned ==
    (last.op = "execute" /\ last.pc[1] % 4 # 0) =>
        /\ IF ext_csr
           THEN csr.mcause = default(R) /\ csr.mtval = last.pc
           ELSE ret = "InstructionMisaligned" /\ pc = last.pc
        /\ registers = last.registers
        /\ mmu = last.mmu

(***************************************************************************)
(* C4.  JALR rd, rs1, imm sets pc to rs1 + sext(imm) with bit 0 cleared,   *)
(* from the value rs1 held before rd is written, and writes the old        *)
(* pc + 4 to rd; jalr x0, x1, 1 with x1 = 0x100 leaves pc = 0x100.         *)
(***************************************************************************)
IsJalr(instruction) == IsaOpcode(instruction) = 103 /\ IsaFunct3(instruction) = 0

C4_Jalr ==
    (Dispatched /\ IsJalr(last.instruction)) =>
        LET instruction == last.instruction
            target == IsaAddInt(last.registers[IsaRs1(instruction)], IsaImmI(instruction))
        IN  /\ pc = [target EXCEPT ![1] = target[1] - (target[1] % 2)]
            /\ \A index \in 0..31 :
                 registers[index] =
                     IF index = IsaRd(instruction) /\ index # 0
                     THEN IsaAddInt(last.pc, 4)
                     ELSE last.registers[index]

(***************************************************************************)
(* C5.  On Core<Register32> every RV64-only instruction (ADDW, SUBW, SLLW, *)
(* SRLW, SRAW, ADDIW, SLLIW, SRLIW, SRAIW, LWU, LD, SD, MULW, DIVW, DIVUW, *)
(* REMW, REMUW) gives IllegalInstruction and changes no register and no    *)
(* memory.                                                                 *)
(***************************************************************************)
\* the word instructions of RV64I by their ISA encodings
IsOpW(instruction) ==
    /\ IsaOpcode(instruction) = 59
    /\ <<IsaFunct3(instruction), IsaFunct7(instruction)>> \in
           {<<0, 0>>, <<0, 32>>, <<1, 0>>, <<5, 0>>, <<5, 32>>}
IsOpImmW(instruction) ==
    /\ IsaOpcode(instruction) = 27
    /\ \/ IsaFunct3(instruction) = 0
       \/ IsaFunct3(instruction) = 1 /\ IsaFunct7(instruction) = 0
       \/ IsaFunct3(instruction) = 5 /\ IsaFunct7(instruction) \in {0, 32}
IsMulW(instruction) ==
    /\ IsaOpcode(instruction) = 59
    /\ IsaFunct7(instruction) = 1
    /\ IsaFunct3(instruction) \in {0, 4, 5, 6, 7}
IsLWU(instruction) == IsaOpcode(instruction) = 3 /\ IsaFunct3(instruction) = 6
IsLD(instruction) == IsaOpcode(instruction) = 3 /\ IsaFunct3(instruction) = 3
IsSD(instruction) == IsaOpcode(instruction) = 35 /\ IsaFunct3(instruction) = 3
IsRv64Only(instruction) ==
    \/ IsOpW(instruction) \/ IsOpImmW(instruction) \/ IsMulW(instruction)
    \/ IsLWU(instruction) \/ IsLD(instruction) \/ IsSD(instruction)

C5_Rv64OnlyIllegal ==
    (R = "Register32" /\ Dispatched /\ IsRv64Only(last.instruction)) =>
        /\ ret = IF ext_csr THEN "()" ELSE "IllegalInstruction"
        /\ registers = last.registers
        /\ mmu = last.mmu

(***************************************************************************)
(* C6.  On Core<Register64> each of ADDW, SUBW, SLLW, SRLW, SRAW, ADDIW,   *)
(* SLLIW, SRLIW, SRAIW with a legal encoding writes the sign-extended      *)
(* 32-bit result to rd and advances pc by 4 without a trap.                *)
(***************************************************************************)
\* the 32-bit result of a word instruction on the register file `before`
IsaResultW(instruction, before) ==
    LET a == IsaLow(before[IsaRs1(instruction)], 4)
        b == IsaLow(before[IsaRs2(instruction)], 4)
        funct3 == IsaFunct3(instruction)
        right == IsaFunct7(instruction) = 32
    IN  IF IsaOpcode(instruction) = 59
        THEN CASE funct3 = 0 -> IF right THEN IsaSub(a, b) ELSE IsaAdd(a, b)
               [] funct3 = 1 -> IsaShl(a, b[1] % 32)
               [] funct3 = 5 -> IsaShr(a, b[1] % 32, right)
        ELSE CASE funct3 = 0 -> IsaAddInt(a, IsaImmI(instruction))
               [] funct3 = 1 -> IsaShl(a, IsaRs2(instruction))
               [] funct3 = 5 -> IsaShr(a, IsaRs2(instruction), right)

C6_WordInstructions ==
    (R = "Register64" /\ Dispatched
        /\ (IsOpW(last.instruction) \/ IsOpImmW(last.instruction))) =>
        /\ NoTrap
        /\ pc = IsaAddInt(last.pc, 4)
        /\ IsaWritten(last.registers, registers, IsaRd(last.instruction),
                      IsaSext(IsaResultW(last.instruction, last.registers), 8))

(***************************************************************************)
(* C7.  On Core<Register64> SD stores the 8 bytes of rs2 little-endian at  *)
(* rs1 + sext(imm) .. + 7, LD loads 8 bytes from that address into rd,     *)
(* LWU loads 4 bytes zero-extended to 64 bits; each advances pc by 4       *)
(* without a trap, so SD then LD at one address returns the stored value.  *)
(***************************************************************************)
C7_DoubleAccess ==
    LET instruction == last.instruction
        base == last.registers[IsaRs1(instruction)]
    IN  /\ (R = "Register64" /\ Dispatched /\ IsSD(instruction)) =>
              /\ NoTrap
              /\ pc = IsaAddInt(last.pc, 4)
              /\ registers = last.registers
              /\ IsaStored(last.mmu, mmu, IsaAddInt(base, IsaImmS(instruction)),
                           last.registers[IsaRs2(instruction)])
        /\ (R = "Register64" /\ Dispatched /\ (IsLD(instruction) \/ IsLWU(instruction))) =>
              /\ NoTrap
              /\ pc = IsaAddInt(last.pc, 4)
              /\ mmu = last.mmu
              /\ IsaWritten(last.registers, registers, IsaRd(instruction),
                    IsaZext(IsaMemBytes(last.mmu, IsaAddInt(base, IsaImmI(instruction)),
                                        IF IsLD(instruction) THEN 8 ELSE 4), 8))

(***************************************************************************)
(* C8.  SLLI, SRLI, SRAI shift rs1 by immediate & (XLEN - 1), for every    *)
(* shift amount 0 .. XLEN - 1; SRLI fills with zeros, SRAI with the sign,  *)
(* the two told apart by i[3] & 0x40.                                      *)
(***************************************************************************)
IsShiftImm(instruction) ==
    IsaOpcode(instruction) = 19 /\ IsaFunct3(instruction) \in {1, 5}

\* immediate & (XLEN - 1)
IsaShamt(instruction, xlen) == (IsaImmI(instruction) + 4096) % xlen

C8_ShiftImmediate ==
    (Dispatched /\ IsShiftImm(last.instruction)) =>
        LET instruction == last.instruction
            a == last.registers[IsaRs1(instruction)]
            shamt == IsaShamt(instruction, 8 * ByteLen(R))
        IN  /\ pc = IsaAddInt(last.pc, 4)
            /\ IsaWritten(last.registers, registers, IsaRd(instruction),
                   IF IsaFunct3(instruction) = 1 THEN IsaShl(a, shamt)
                   ELSE IsaShr(a, shamt, InstrBit(instruction, 30) = 1))

(***************************************************************************)
(* C9.  SB, SH, SW write the low 1, 2, 4 bytes of rs2 to memory at         *)
(* rs1 + sext(imm), least significant byte at the lowest address; a load   *)
(* of the same width from that address returns those bytes sign-extended   *)
(* (LB, LH, LW) or zero-extended (LBU, LHU) to XLEN.  SW x1, 0(x2);        *)
(* LW x3, 0(x2) with x1 = 0xDEADBEEF, x2 = 0x100 leaves EF BE AD DE at     *)
(* 0x100 .. 0x103 and x3 = 0xDEADBEEF.                                     *)
(***************************************************************************)
IsStore(instruction) == IsaOpcode(instruction) = 35 /\ IsaFunct3(instruction) \in 0..2
IsLoad(instruction) ==
    IsaOpcode(instruction) = 3 /\ IsaFunct3(instruction) \in {0, 1, 2, 4, 5}

\* 1, 2 or 4 bytes, from funct3 bits 1..0
IsaAccessBytes(instruction) == 2 ^ (IsaFunct3(instruction) % 4)

C9_StoreLoad ==
    LET instruction == last.instruction
        base == last.registers[IsaRs1(instruction)]
    IN  /\ (Dispatched /\ IsStore(instruction)) =>
              /\ NoTrap
              /\ registers = last.registers
              /\ IsaStored(last.mmu, mmu, IsaAddInt(base, IsaImmS(instruction)),
                           IsaLow(last.registers[IsaRs2(instruction)],
                                  IsaAccessBytes(instruction)))
        /\ (Dispatched /\ IsLoad(instruction)) =>
              LET bytes == IsaMemBytes(last.mmu, IsaAddInt(base, IsaImmI(instruction)),
                                       IsaAccessBytes(instruction))
              IN  /\ NoTrap
                  /\ mmu = last.mmu
                  /\ IsaWritten(last.registers, registers, IsaRd(instruction),
                         IF IsaFunct3(instruction) >= 4 THEN IsaZext(bytes, ByteLen(R))
                         ELSE IsaSext(bytes, ByteLen(R)))

(***************************************************************************)
(* C10.  BEQ, BNE, BLT, BGE, BLTU, BGEU: when the condition on rs1 and rs2 *)
(* holds (signed for BLT/BGE, unsigned for BLTU/BGEU) pc becomes           *)
(* pc + sext(offset), otherwise pc + 4, and no register is modified;       *)
(* BEQ x0, x0, -4 at pc = 4 gives pc = 0, BNE x0, x0, +8 at pc = 0 gives   *)
(* pc = 4.                                                                 *)
(***************************************************************************)
IsBranch(instruction) ==
    IsaOpcode(instruction) = 99 /\ IsaFunct3(instruction) \in {0, 1, 4, 5, 6, 7}

IsaBranchTaken(instruction, a, b) ==
    CASE IsaFunct3(instruction) = 0 -> a = b
      [] IsaFunct3(instruction) = 1 -> a # b
      [] IsaFunct3(instruction) = 4 -> IsaLtS(a, b)
      [] IsaFunct3(instruction) = 5 -> ~IsaLtS(a, b)
      [] IsaFunct3(instruction) = 6 -> IsaLtU(a, b)
      [] IsaFunct3(instruction) = 7 -> ~IsaLtU(a, b)

C10_Branch ==
    /\ (Dispatched /\ IsBranch(last.instruction)) =>
        LET instruction == last.instruction
            a == last.registers[IsaRs1(instruction)]
            b == last.registers[IsaRs2(instruction)]
        IN  /\ pc = IF IsaBranchTaken(instruction, a, b)
                    THEN IsaAddInt(last.pc, IsaImmB(instruction))
                    ELSE IsaAddInt(last.pc, 4)
            /\ \A index \in 0..31 : registers[index] = last.registers[index]
    \* BEQ x0, x0, -4 is the word 0xFE000EE3, BNE x0, x0, +8 the word 0x00001463
    /\ (Dispatched /\ last.instruction = <<227, 14, 0, 254>> /\ last.pc = IsaReg(4, ByteLen(R)))
           => pc = IsaReg(0, ByteLen(R))
    /\ (Dispatched /\ last.instruction = <<99, 20, 0, 0>> /\ last.pc = IsaReg(0, ByteLen(R)))
           => pc = IsaReg(4, ByteLen(R))

\* BLT x1, x2 taken with x1 = -1 and x2 = 1, where the unsigned order says no,
\* from a pc other than the entry address
C10_Witness ==
    /\ Dispatched
    /\ last.instruction = BLT(1, 2, 2048)
    /\ last.registers[1] = IsaReg(-1, ByteLen(R))
    /\ last.registers[2] = IsaReg(1, ByteLen(R))
    /\ last.pc = IsaReg(4, ByteLen(R))
    /\ pc = IsaReg(2052, ByteLen(R))

(***************************************************************************)
(* Programs the host loads at the entry address and runs from there.       *)
(***************************************************************************)
\* ADDI x1,x0,3; ADDI x2,x0,4; ADD x3,x1,x2
ProgramSum == <<ADDI(1, 0, 3), ADDI(2, 0, 4), ADD(3, 1, 2)>>

\* the word 0x123452B7, LUI x2,0x12345 and AUIPC x3,1
ProgramUpper == << <<183, 82, 52, 18>>, LUI(2, 74565), AUIPC(3, 1) >>

\* a store, the load of what it stored, a shift
ProgramData == <<SW(1, 0, 256), LW(3, 0, 256), SLLI(3, 3, 2)>>

\* straight-line code up to a jump, and up to a trap
ProgramLeaving == <<ADDI(1, 0, 5), JAL(0, 8), ADDI(2, 0, 1)>>
ProgramStopping == <<ADDI(1, 0, 5), EBREAK, ADDI(2, 0, 1)>>

Programs == {ProgramSum, ProgramUpper, ProgramData, ProgramLeaving, ProgramStopping}

InitRun ==
    InitWith(RegisterTypes, BOOLEAN, {FALSE}, {FALSE}, {0, 8}, HartIds, {{}},
             { Running({1}, {One, X100}, program) : program \in Programs })

SpecRun == InitRun /\ [][Next]_vars

(***************************************************************************)
(* C11.  Every instruction that is neither a jump nor a branch and does    *)
(* not trap advances pc by exactly 4, so after n such steps from the entry *)
(* address a the pc is a + 4n; ADDI x1,x0,3; ADDI x2,x0,4; ADD x3,x1,x2    *)
(* run from pc = 0 by three calls of execute ends with x1 = 3, x2 = 4,     *)
(* x3 = 7 and pc = 12.                                                     *)
(***************************************************************************)
\* neither JAL, JALR nor a branch, and an instruction that does not trap
Plain(instruction) ==
    /\ IsaOpcode(instruction) \notin {111, 103, 99}
    /\ HasHandler(instruction)
    /\ ~IsSystem0(instruction)

Fresh ==
    /\ nsteps = 1 /\ nsets = 0
    /\ \A index \in 0..31 : last.registers[index] = IsaReg(0, ByteLen(R))

C12_Lui ==
    /\ (Dispatched /\ last.instruction = <<183, 82, 52, 18>>) =>
           /\ NoTrap
           /\ pc = IsaAddInt(last.pc, 4)
           /\ IsaRd(last.instruction) = 5
           /\ IsaWritten(last.registers, registers, 5,
                         IsaSext(<<0, 80, 52, 18>>, ByteLen(R)))
    /\ (Dispatched /\ last.instruction = <<55, 81, 52, 18>>) =>
           /\ NoTrap
           /\ pc = IsaAddInt(last.pc, 4)
           /\ IsaWritten(last.registers, registers, 2,
                         IsaSext(<<0, 80, 52, 18>>, ByteLen(R)))

\* a freshly constructed core executed the word 0x123452B7
C12_Witness ==
    /\ Dispatched /\ Fresh
    /\ last.instruction = <<183, 82, 52, 18>>
    /\ registers[5] = IsaSext(<<0, 80, 52, 18>>, ByteLen(R))

\* C12 as stated: the word 0x123452B7, executed on a freshly constructed core,
\* leaves x2 = 0x12345000
C12_LuiOriginal ==
    (Dispatched /\ Fresh /\ last.instruction = <<183, 82, 52, 18>>) =>
        registers[2] = IsaSext(<<0, 80, 52, 18>>, ByteLen(R))

(***************************************************************************)
(* Traps with Zicsr.  Core::new takes any entry address, and mtvec is the  *)
(* entry address: the entries 0 and 4 make mtvec direct, 5 and 261 make it *)
(* vectored.                                                               *)
(***************************************************************************)
ProgramTrapCsr ==
    { ECALL, EBREAK, EncI(115, 0, 3, 1, 1), <<0, 0, 0, 0>>, <<255, 255, 255, 255>>,
      SD(1, 2, 0), ADDI(1, 0, 5), JAL(1, 8) }

InitTrapCsr ==
    InitWith(RegisterTypes, {TRUE}, {FALSE}, {FALSE}, {0, 4, 5, 261}, HartIds,
             {ProgramTrapCsr}, {Host({1}, {X100})})

SpecTrapCsr == InitTrapCsr /\ [][Next]_vars

\* trap_target(vec, c) for the modes 0 (direct) and 1 (vectored) of vec
IsaTrapMode(vec) == vec[1] % 4
IsaTrapTarget(vec, c) ==
    LET base == [k \in 1..Len(vec) |-> IF k = 1 THEN vec[1] - (vec[1] % 4) ELSE vec[k]]
    IN  IF IsaTrapMode(vec) = 0 THEN base ELSE IsaAddInt(base, 4 * c)

\* the instruction traps: ECALL, EBREAK, or a word no handler takes
IsaTraps(instruction) ==
    IsEcall(instruction) \/ IsEbreak(instruction) \/ ~HasHandler(instruction)

\* the exception code of the trap the instruction takes
IsaCause(instruction) ==
    IF IsEcall(instruction) THEN 11 ELSE IF IsEbreak(instruction) THEN 3 ELSE 2

(***************************************************************************)
(* C13.  With Zicsr, ECALL, EBREAK and an illegal instruction are consumed *)
(* within the step: execute returns normally, mcause holds a cause and pc  *)
(* is the trap vector; ECALL is handled as EBREAK is.                      *)
(***************************************************************************)
C13_TrapConsumed ==
    (ext_csr /\ Dispatched /\ IsaTraps(last.instruction)) =>
        /\ ret = "()"
        /\ csr.mcause # IsaReg(0, ByteLen(R))
        /\ IsaTrapMode(last.csr.mtvec) \in {0, 1} =>
               pc = IsaTrapTarget(last.csr.mtvec, IsaCause(last.instruction))

(***************************************************************************)
(* C14.  On trap entry mcause = (interrupt << (XLEN-1)) | cause: an        *)
(* illegal instruction leaves mcause = 2, a breakpoint mcause = 3, on      *)
(* 32-bit and on 64-bit registers.                                         *)
(***************************************************************************)
C14_Mcause ==
    (ext_csr /\ Dispatched /\ ret # "panic") =>
        /\ ~HasHandler(last.instruction) => csr.mcause = IsaReg(2, ByteLen(R))
        /\ IsEbreak(last.instruction) => csr.mcause = IsaReg(3, ByteLen(R))

ProgramCsr ==
    { CSRRW(0, 832, 1), CSRRW(3, 832, 1), CSRRS(3, 832, 0),
      CSRRW(0, 772, 1), CSRRS(3, 836, 1), CSRRC(3, 772, 1),
      CSRRWI(3, 836, 31), CSRRSI(0, 772, 4), CSRRCI(3, 836, 1),
      CSRRW(3, 1984, 1), CSRRW(0, 1984, 1), CSRRSI(3, 768, 0), ADDI(1, 0, 5) }

InitCsr ==
    InitWith(RegisterTypes, {TRUE}, {FALSE}, {FALSE}, {0}, HartIds, {ProgramCsr},
             {Host({1}, {DeadBeef, MinusOne, X100})})

SpecCsr == InitCsr /\ [][Next]_vars

\* a CSR instruction, the CSR address it names (instruction bits 31:20), and
\* whether it reads the CSR into rd
IsCsrInstr(instruction) ==
    IsaOpcode(instruction) = 115 /\ IsaFunct3(instruction) \in {1, 2, 3, 5, 6, 7}
IsaCsr(instruction) == Field(instruction, 31, 20)
IsaCsrReads(instruction) ==
    IsaFunct3(instruction) \notin {1, 5} \/ IsaRd(instruction) # 0

\* the source operand of a CSR instruction: rs1, or the zero-extended 5-bit
\* immediate held in the rs1 field
IsaCsrSource(instruction, before) ==
    IF IsaFunct3(instruction) \in {1, 2, 3} THEN before[IsaRs1(instruction)]
    ELSE IsaZext(<<IsaRs1(instruction)>>, Len(before[0]))

\* whether the instruction writes the CSR, and the value it writes over `old`
IsaCsrWrites(instruction) ==
    IsaFunct3(instruction) \in {1, 5} \/ IsaRs1(instruction) # 0
IsaCsrNew(instruction, old, source) ==
    LET o == IsaBits(old)
        x == IsaBits(source)
        funct3 == IsaFunct3(instruction)
    IN  IsaFromBits([k \in 1..Len(o) |->
            CASE funct3 \in {1, 5} -> x[k]
              [] funct3 \in {2, 6} -> IF o[k] = 1 \/ x[k] = 1 THEN 1 ELSE 0
              [] funct3 \in {3, 7} -> IF o[k] = 1 /\ x[k] = 0 THEN 1 ELSE 0])

\* v & ~0x0000F444: bits 2, 6, 10 and 12..15 cleared
IsaReserved == {2, 6, 10, 12, 13, 14, 15}
IsaUnreserved(v) ==
    LET b == IsaBits(v)
    IN  IsaFromBits([k \in 1..Len(b) |-> IF (k - 1) \in IsaReserved THEN 0 ELSE b[k]])

\* the table of defined CSRs, for registers of len bytes
IsaCsrDefined(address, len) ==
    \/ address \in 769..774
    \/ address \in 832..836
    \/ address \in {2816, 2818}
    \/ address \in 2819..2847
    \/ address \in 2851..2879
    \/ len = 4 /\ (address \in {2944, 2946} \/ address \in 2947..2975)
    \/ address \in 3857..3860

(***************************************************************************)
(* C16.  With Zicsr, CSRRW to mscratch (0x340) stores the value of rs1 and *)
(* a later CSR instruction reading 0x340 returns it: 0xDEADBEEF written is *)
(* 0xDEADBEEF read.                                                        *)
(***************************************************************************)
C16_Mscratch ==
    (ext_csr /\ Dispatched) =>
        LET instruction == last.instruction
            named == IsCsrInstr(instruction) /\ IsaCsr(instruction) = 832
        IN  \* CSRRW stores rs1 in mscratch
            /\ (named /\ IsaFunct3(instruction) = 1) =>
                   /\ ret = "()"
                   /\ csr.mscratch = last.registers[IsaRs1(instruction)]
            \* a CSR instruction that reads 0x340 returns what mscratch held
            /\ (named /\ IsaCsrReads(instruction)) =>
                   IsaWritten(last.registers, registers, IsaRd(instruction),
                              last.csr.mscratch)
            \* and no other instruction changes it
            /\ ~named => csr.mscratch = last.csr.mscratch

(***************************************************************************)
(* C17.  Every write of v to mie (0x304) or mip (0x344) stores             *)
(* v & ~0x0000F444: bits 2, 6, 10 and 12..15 are forced to zero and every  *)
(* other bit of v, bits 16 and above included, is kept; mie and mip have   *)
(* the reserved bits clear in every reachable state.                       *)
(***************************************************************************)
C17_Wpri ==
    ext_csr =>
        /\ \A bit \in IsaReserved :
               IsaBits(csr.mie)[bit + 1] = 0 /\ IsaBits(csr.mip)[bit + 1] = 0
        /\ (Dispatched /\ ret # "panic" /\ IsCsrInstr(last.instruction)
                /\ IsaCsrWrites(last.instruction)) =>
               LET instruction == last.instruction
                   source == IsaCsrSource(instruction, last.registers)
               IN  /\ IsaCsr(instruction) = 772 =>
                          csr.mie = IsaUnreserved(
                                        IsaCsrNew(instruction, last.csr.mie, source))
                   /\ IsaCsr(instruction) = 836 =>
                          csr.mip = IsaUnreserved(
                                        IsaCsrNew(instruction, last.csr.mip, source))

(***************************************************************************)
(* C18.  With Zicsr, a CSR instruction (any of the six, any rd) naming a   *)
(* CSR address outside the defined table raises the illegal-instruction    *)
(* trap: rd is not written and execute completes by entering the trap      *)
(* handler.                                                                *)
(***************************************************************************)
C18_UndefinedCsr ==
    (ext_csr /\ Dispatched /\ IsCsrInstr(last.instruction)
        /\ ~IsaCsrDefined(IsaCsr(last.instruction), ByteLen(R))) =>
        /\ ret = "()"
        /\ registers = last.registers
        /\ IsaTrapMode(last.csr.mtvec) \in {0, 1} =>
               pc = IsaTrapTarget(last.csr.mtvec, 2)

(***************************************************************************)
(* Reads of CSRs next to instructions that change the CSR file and that    *)
(* trap, on harts 0 and 1 entered at address 8.                            *)
(***************************************************************************)
ProgramCsrRead ==
    { CSRRS(3, 3860, 0), CSRRC(3, 773, 0), CSRRSI(3, 2816, 0), CSRRCI(1, 772, 0),
      CSRRS(0, 772, 0), CSRRS(3, 1984, 0), CSRRW(0, 772, 1), EBREAK, <<0, 0, 0, 0>>,
      ADDI(1, 0, 5), CSRRS(3, 769, 0) }

InitCsrRead ==
    InitWith(RegisterTypes, {TRUE}, {FALSE}, {FALSE}, {8}, {0, 1}, {ProgramCsrRead},
             {Host({1}, {DeadBeef, X100})})

SpecCsrRead == InitCsrRead /\ [][Next]_vars

\* CSRRS or CSRRC with rs1 = x0, CSRRSI or CSRRCI with a zero immediate
IsCsrRead(instruction) ==
    /\ IsaOpcode(instruction) = 115
    /\ IsaFunct3(instruction) \in {2, 3, 6, 7}
    /\ IsaRs1(instruction) = 0

\* the CSRs that are storage of the CSR file, and the value such a CSR holds
\* in the file c, for registers of len bytes
IsaCsrStored(address) ==
    address \in 770..774 \/ address \in 832..836 \/ address \in {2816, 2818, 3860}
IsaCsrValue(c, address, len) ==
    CASE address = 770 -> c.medeleg
      [] address = 771 -> c.mideleg
      [] address = 772 -> c.mie
      [] address = 773 -> c.mtvec
      [] address = 774 -> IsaZext(c.mcounteren, len)
      [] address = 832 -> c.mscratch
      [] address = 833 -> c.mepc
      [] address = 834 -> c.mcause
      [] address = 835 -> c.mtval
      [] address = 836 -> c.mip
      [] address \in {2816, 2818} -> IsaLow(c.mcycle, len)
      [] address = 3860 -> c.mhartid

(***************************************************************************)
(* C19.  CSRRS and CSRRC with rs1 = x0, CSRRSI and CSRRCI with a zero      *)
(* immediate, write no CSR: the CSR file apart from mcycle is unchanged    *)
(* and rd receives the CSR's current value, so a read-only CSR such as     *)
(* mhartid can be read this way.                                           *)
(***************************************************************************)
C19_ReadOnly ==
    (ext_csr /\ Dispatched /\ IsCsrRead(last.instruction)) =>
        LET address == IsaCsr(last.instruction)
        IN  /\ \A field \in DOMAIN csr \ {"mcycle"} : csr[field] = last.csr[field]
            /\ IsaCsrDefined(address, ByteLen(R)) =>
                   ret = "()" /\ pc = IsaAddInt(last.pc, 4)
            /\ IsaCsrStored(address) =>
                   IsaWritten(last.registers, registers, IsaRd(last.instruction),
                              IsaCsrValue(csr, address, ByteLen(R)))

\* CSRRS x3, mhartid, x0 on hart 1, with mie written before
C19_Witness ==
    /\ ext_csr /\ Dispatched
    /\ last.instruction = CSRRS(3, 3860, 0)
    /\ last.csr.mie # IsaReg(0, ByteLen(R))
    /\ last.registers[3] = IsaReg(0, ByteLen(R))
    /\ registers[3] = IsaReg(1, ByteLen(R))

(***************************************************************************)
(* C20.  With Zicsr, each call of execute increments the 64-bit mcycle by  *)
(* exactly 1 (wrapping at 2^64), whether the step completes normally or    *)
(* takes a trap, so after n calls from construction mcycle = n.            *)
(***************************************************************************)
C20_Mcycle ==
    ext_csr =>
        /\ Dispatched => csr.mcycle = IsaAddInt(last.csr.mcycle, 1)
        /\ last.op = "set" => csr.mcycle = last.csr.mcycle
        /\ (ret = "panic" => Dispatched) => csr.mcycle = IsaReg(nsteps, 8)
        \* the increment of execute wraps
        /\ add_unsigned(IsaReg(-1, 8), zero_extended_byte("Register64", 1)) = IsaReg(0, 8)

\* the second call took a breakpoint trap after a first one that completed
\* normally
C20_Witness ==
    /\ ext_csr /\ Dispatched
    /\ IsEbreak(last.instruction)
    /\ last.csr.mcause = IsaReg(0, ByteLen(R))
    /\ last.pc = IsaReg(12, ByteLen(R))
    /\ pc = IsaReg(8, ByteLen(R))
    /\ csr.mcycle = IsaReg(2, 8)

(***************************************************************************)
(* Arithmetic of the registers.  The host sets x1 and x2 to the operands,  *)
(* the words of the M extension put the results in x3.  The ISA's results  *)
(* are stated on byte arrays: magnitudes, signs, and a long multiplication *)
(* row by row.                                                             *)
(***************************************************************************)
\* operand patterns: 0, 2, 4, 6, 9, 35, -16, -9, -6, 0x8000000000000000
Nought == <<0, 0, 0, 0, 0, 0, 0, 0>>
Two == <<2, 0, 0, 0, 0, 0, 0, 0>>
Four == <<4, 0, 0, 0, 0, 0, 0, 0>>
Six == <<6, 0, 0, 0, 0, 0, 0, 0>>
Nine == <<9, 0, 0, 0, 0, 0, 0, 0>>
ThirtyFive == <<35, 0, 0, 0, 0, 0, 0, 0>>
MinusSixteen == <<240, 255, 255, 255, 255, 255, 255, 255>>
MinusNine == <<247, 255, 255, 255, 255, 255, 255, 255>>
MinusSix == <<250, 255, 255, 255, 255, 255, 255, 255>>
Bit63 == <<0, 0, 0, 0, 0, 0, 0, 128>>

\* the most negative two's-complement number of len bytes
IsaMin(len) == [k \in 1..len |-> IF k = len THEN 128 ELSE 0]

\* a is negative when read as a two's-complement number; -a; |a| as an
\* unsigned number
IsaNegative(a, as_signed) == as_signed /\ a[Len(a)] >= 128
IsaNeg(a) == IsaSub(IsaReg(0, Len(a)), a)
IsaAbs(a, as_signed) == IF IsaNegative(a, as_signed) THEN IsaNeg(a) ELSE a

\* the unsigned number a times the byte d, in one byte more than a
IsaRow(a, d) ==
    LET c[k \in 0..Len(a)] ==
            IF k = 0 THEN 0 ELSE (a[k] * d + c[k - 1]) \div 256
    IN  [k \in 1..(Len(a) + 1) |->
            IF k <= Len(a) THEN (a[k] * d + c[k - 1]) % 256 ELSE c[Len(a)]]

\* row, moved up by k - 1 bytes, in n bytes
IsaRowAt(row, k, n) ==
    [j \in 1..n |-> IF j >= k /\ j - k + 1 <= Len(row) THEN row[j - k + 1] ELSE 0]

\* the product of the unsigned numbers a and b in Len(a) + Len(b) bytes: the
\* sum of the rows of the first k bytes of b
RECURSIVE IsaRows(_, _, _)
IsaRows(a, b, k) ==
    IF k = 0 THEN SubSeq(IsaReg(0, Len(a) + Len(b)), 1, Len(a) + Len(b))
    ELSE SubSeq(IsaAdd(IsaRows(a, b, k - 1),
                       SubSeq(IsaRowAt(IsaRow(a, b[k]), k, Len(a) + Len(b)),
                              1, Len(a) + Len(b))),
                1, Len(a) + Len(b))
IsaMulU(a, b) == IsaRows(SubSeq(a, 1, Len(a)), SubSeq(b, 1, Len(b)), Len(b))

\* q and r are the ISA's quotient and remainder of a by b, all read as signed
\* or all as unsigned numbers
IsaDivides(a, b, q, r, as_signed) ==
    LET len == Len(a)
        zero == IsaReg(0, len)
    IN  IF b = zero THEN q = IsaReg(-1, len) /\ r = a
        ELSE IF as_signed /\ a = IsaMin(len) /\ b = IsaReg(-1, len)
        THEN q = a /\ r = zero
        ELSE /\ IsaAdd(IsaMulU(IsaAbs(q, as_signed), IsaAbs(b, as_signed)),
                       IsaZext(IsaAbs(r, as_signed), 2 * len))
                    = IsaZext(IsaAbs(a, as_signed), 2 * len)
             /\ IsaLtU(IsaAbs(r, as_signed), IsaAbs(b, as_signed))
             /\ (q = zero
                    \/ IsaNegative(q, as_signed)
                         = (IsaNegative(a, as_signed) # IsaNegative(b, as_signed)))
             /\ (r = zero \/ IsaNegative(r, as_signed) = IsaNegative(a, as_signed))

\* the words of the division, on x1 and x2 into x3
ProgramDiv == { DIV(3, 1, 2), DIVU(3, 1, 2) }

\* hosts that put a dividend and a divisor in x1 and x2 (either is 0 until set)
InitDiv ==
    InitWith(RegisterTypes, {FALSE}, {TRUE}, {FALSE}, {0}, HartIds, {ProgramDiv},
             { Host({1, 2}, {MinusOne, Bit31}), Host({1, 2}, {MinusOne, Bit63}),
               Host({1, 2}, {MinusSixteen, Four}), Host({1, 2}, {ThirtyFive, MinusNine}),
               Host({1, 2}, {ThirtyFive, Nine}), Host({1, 2}, {DeadBeef, Digits}) })

SpecDiv == InitDiv /\ [][Next]_vars

\* the last call executed an M-extension word of funct3 f
IsM(f) ==
    /\ Dispatched
    /\ IsaOpcode(last.instruction) = 51
    /\ IsaFunct7(last.instruction) = 1
    /\ IsaFunct3(last.instruction) = f

\* q is the ISA's quotient of a by b; the remainder that goes with it is
\* a - q * b
IsaQuotient(a, b, q, as_signed) ==
    \E r \in {SubSeq(IsaSub(a, SubSeq(IsaMulU(q, b), 1, Len(a))), 1, Len(a))} :
        IsaDivides(a, b, q, r, as_signed)

\* q = div(a, b) and qu = divu(a, b) are what the ISA defines
IsaDivision(a, b, q, qu) ==
    LET len == Len(a)
    IN  /\ ~IsPanic(q) /\ ~IsPanic(qu)
        /\ IsaQuotient(a, b, q, TRUE)
        /\ IsaQuotient(a, b, qu, FALSE)
        /\ b = IsaReg(0, len) => q = IsaReg(-1, len) /\ qu = [k \in 1..len |-> 255]
        /\ a = IsaMin(len) /\ b = IsaReg(-1, len) => q = IsaMin(len)
        /\ a = IsaReg(-16, len) /\ b = IsaReg(4, len) => q = IsaReg(-4, len)
        /\ a = IsaReg(35, len) /\ b = IsaReg(-9, len) => q = IsaReg(-3, len)
        /\ a = IsaReg(35, len) /\ b = IsaReg(9, len) =>
             q = IsaReg(3, len) /\ qu = IsaReg(3, len)

\* C21: division never aborts and gives the ISA's results for every pair of
\* operands: div(x, 0) = -1 and divu(x, 0) = 2^XLEN - 1, div(MIN, -1) = MIN,
\* otherwise the quotient rounded toward zero (-16/4 = -4, 35/-9 = -3,
\* 35/9 = 3).  Stated of the operands the host has put in x1 and x2, and of
\* the result a DIV or DIVU word has written.
C21_Division ==
    /\ last.op # "execute" =>
         \E q \in {div(registers[1], registers[2])},
            qu \in {divu(registers[1], registers[2])} :
             IsaDivision(registers[1], registers[2], q, qu)
    /\ IsM(4) \/ IsM(5) =>
         /\ NoTrap
         /\ IsaQuotient(last.registers[IsaRs1(last.instruction)],
                        last.registers[IsaRs2(last.instruction)],
                        registers[IsaRd(last.instruction)], IsM(4))

\* DIV has divided the most negative number by -1
C21_Witness ==
    /\ IsM(4)
    /\ last.registers[1] = IsaMin(ByteLen(R))
    /\ last.registers[2] = IsaReg(-1, ByteLen(R))
    /\ registers[3] = IsaMin(ByteLen(R))

\* the words of the remainder, on x1 and x2 into x3
ProgramRem == { REM(3, 1, 2), REMU(3, 1, 2) }

InitRem ==
    InitWith(RegisterTypes, {FALSE}, {TRUE}, {FALSE}, {0}, HartIds, {ProgramRem},
             { Host({1, 2}, {MinusOne, Bit31}), Host({1, 2}, {MinusOne, Bit63}),
               Host({1, 2}, {MinusNine, Four}), Host({1, 2}, {ThirtyFive, MinusSix}),
               Host({1, 2}, {ThirtyFive, Six}), Host({1, 2}, {DeadBeef, Digits}) })

SpecRem == InitRem /\ [][Next]_vars

\* r is the ISA's remainder of a by b, q being the quotient: the pair is the
\* ISA's, and for b # 0  a = q * b + r  modulo 2^XLEN
IsaRemainder(a, b, q, r, as_signed) ==
    /\ ~IsPanic(r)
    /\ IsaDivides(a, b, q, r, as_signed)
    /\ b # IsaReg(0, Len(a)) =>
         IsaAdd(SubSeq(IsaMulU(q, b), 1, Len(a)), r) = a

\* r = rem(a, b) and ru = remu(a, b) are what the ISA defines
IsaRemainders(a, b, q, qu, r, ru) ==
    LET len == Len(a)
    IN  /\ IsaRemainder(a, b, q, r, TRUE)
        /\ IsaRemainder(a, b, qu, ru, FALSE)
        /\ b = IsaReg(0, len) => r = a /\ ru = a
        /\ a = IsaMin(len) /\ b = IsaReg(-1, len) => r = IsaReg(0, len)
        /\ a = IsaReg(-9, len) /\ b = IsaReg(4, len) => r = IsaReg(-1, len)
        /\ a = IsaReg(35, len) /\ b = IsaReg(-6, len) => r = IsaReg(5, len)
        /\ a = IsaReg(35, len) /\ b = IsaReg(6, len) =>
             r = IsaReg(5, len) /\ ru = IsaReg(5, len)

\* C22: the remainder never aborts and gives the ISA's results for every pair
\* of operands: rem(x, 0) = x and remu(x, 0) = x, rem(MIN, -1) = 0, otherwise
\* the remainder of the division toward zero with the sign of the dividend
\* (-9 rem 4 = -1, 35 rem -6 = 5), so that x = div(x, y) * y + rem(x, y) for
\* y # 0.  Stated of the operands the host has put in x1 and x2, and of the
\* result a REM or REMU word has written.
C22_Remainder ==
    /\ last.op # "execute" =>
         \E q \in {div(registers[1], registers[2])},
            qu \in {divu(registers[1], registers[2])},
            r \in {rem(registers[1], registers[2])},
            ru \in {remu(registers[1], registers[2])} :
             IsaRemainders(registers[1], registers[2], q, qu, r, ru)
    /\ IsM(6) \/ IsM(7) =>
         /\ NoTrap
         /\ \E a \in {last.registers[IsaRs1(last.instruction)]},
               b \in {last.registers[IsaRs2(last.instruction)]} :
              \E q \in {IF IsM(6) THEN div(a, b) ELSE divu(a, b)} :
                  IsaRemainder(a, b, q, registers[IsaRd(last.instruction)], IsM(6))

\* REM has taken the remainder of -9 by 4
C22_Witness ==
    /\ IsM(6)
    /\ last.registers[1] = IsaReg(-9, ByteLen(R))
    /\ last.registers[2] = IsaReg(4, ByteLen(R))
    /\ registers[3] = IsaReg(-1, ByteLen(R))

\* the words of the multiplication, on x1 and x2 into x3
ProgramMul == { MUL(3, 1, 2), MULH(3, 1, 2), MULHU(3, 1, 2), MULHSU(3, 1, 2) }

InitMul ==
    InitWith(RegisterTypes, {FALSE}, {TRUE}, {FALSE}, {0}, HartIds, {ProgramMul},
             { Host({1, 2}, {MinusOne, Two}), Host({1, 2}, {MinusOne, Bit31}),
               Host({1, 2}, {MinusOne, Bit63}), Host({1, 2}, {DeadBeef, Digits}) })

SpecMul == InitMul /\ [][Next]_vars

\* the product of a and b in twice their bytes, each read as a two's-complement
\* or as an unsigned number: the product of the magnitudes, negated when
\* exactly one operand is negative
IsaProduct(a, a_signed, b, b_signed) ==
    LET magnitude == IsaMulU(SubSeq(IsaAbs(a, a_signed), 1, Len(a)),
                             SubSeq(IsaAbs(b, b_signed), 1, Len(b)))
    IN  IF IsaNegative(a, a_signed) # IsaNegative(b, b_signed)
        THEN SubSeq(IsaNeg(magnitude), 1, 2 * Len(a))
        ELSE magnitude

\* the low and the high half of a product
IsaLowHalf(p) == SubSeq(p, 1, Len(p) \div 2)
IsaHighHalf(p) == SubSeq(p, (Len(p) \div 2) + 1, Len(p))

\* the ISA's result of the M-extension word of funct3 f (0..3) on a and b
IsaMul(f, a, b) ==
    CASE f = 0 -> IsaLowHalf(IsaProduct(a, TRUE, b, TRUE))
      [] f = 1 -> IsaHighHalf(IsaProduct(a, TRUE, b, TRUE))
      [] f = 2 -> IsaHighHalf(IsaProduct(a, TRUE, b, FALSE))
      [] f = 3 -> IsaHighHalf(IsaProduct(a, FALSE, b, FALSE))

\* C23: for all register values a and b, mul is the low XLEN bits of a * b,
\* mulh the high XLEN bits of the signed * signed product, mulhu of the
\* unsigned * unsigned product, mulhsu of the signed(a) * unsigned(b) product,
\* with no saturation or loss (-1 mul 2 = -2, mulh = -1, mulhu = 1,
\* mulhsu = -1).  Stated of the operands the host has put in x1 and x2, and of
\* the result a MUL, MULH, MULHSU or MULHU word has written.
C23_Multiply ==
    /\ last.op # "execute" =>
         \E a \in {registers[1]}, b \in {registers[2]} :
         \E low \in {mul(a, b)}, high \in {mulh(a, b)},
            high_su \in {mulhsu(a, b)}, high_u \in {mulhu(a, b)} :
             /\ low = IsaMul(0, a, b)
             /\ low = IsaLowHalf(IsaProduct(a, FALSE, b, FALSE))
             /\ high = IsaMul(1, a, b)
             /\ high_su = IsaMul(2, a, b)
             /\ high_u = IsaMul(3, a, b)
             /\ a = IsaReg(-1, Len(a)) /\ b = IsaReg(2, Len(a)) =>
                  /\ low = IsaReg(-2, Len(a))
                  /\ high = IsaReg(-1, Len(a))
                  /\ high_u = IsaReg(1, Len(a))
                  /\ high_su = IsaReg(-1, Len(a))
    /\ \A f \in 0..3 :
         IsM(f) =>
             /\ NoTrap
             /\ registers[IsaRd(last.instruction)]
                    = IsaMul(f, last.registers[IsaRs1(last.instruction)],
                             last.registers[IsaRs2(last.instruction)])

\* MULHSU has multiplied 2 by the unsigned all-ones value
C23_Witness ==
    /\ IsM(2)
    /\ last.registers[1] = IsaReg(2, ByteLen(R))
    /\ last.registers[2] = IsaReg(-1, ByteLen(R))
    /\ registers[3] = IsaReg(1, ByteLen(R))

\* the words of the addition and the subtraction, on x1 and x2 into x3
ProgramAdd == { ADD(3, 1, 2), SUB(3, 1, 2), ADDI(3, 1, 1), ADDI(3, 1, -1) }

InitAdd ==
    InitWith(RegisterTypes, {FALSE}, {FALSE}, {FALSE}, {0}, HartIds, {ProgramAdd},
             { Host({1, 2}, {MinusOne, One}), Host({1, 2}, {Bit31, Bit63}),
               Host({1, 2}, {DeadBeef, Digits}) })

SpecAdd == InitAdd /\ [][Next]_vars

\* the last call executed the word of opcode o, funct3 f and funct7 g
IsOp(o, f, g) ==
    /\ Dispatched
    /\ IsaOpcode(last.instruction) = o
    /\ IsaFunct3(last.instruction) = f
    /\ IsaFunct7(last.instruction) = g

\* C24: add_signed, add_unsigned and sub_unsigned wrap modulo 2^XLEN for all
\* operands and never abort: add_unsigned(MAX, 1) = 0, sub_unsigned(0, 1) =
\* 2^XLEN - 1, add_signed(-1, 1) = 0, and add_signed and add_unsigned give the
\* same bit pattern.  Stated of the operands the host has put in x1 and x2,
\* and of the results the ADD, SUB and ADDI words have written.
C24_Wrapping ==
    /\ last.op # "execute" =>
         \E a \in {registers[1]}, b \in {registers[2]} :
         \E s \in {add_signed(a, b)}, u \in {add_unsigned(a, b)},
            d \in {sub_unsigned(a, b)} :
             /\ ~IsPanic(s) /\ ~IsPanic(u) /\ ~IsPanic(d)
             /\ s = IsaAdd(a, b)
             /\ u = IsaAdd(a, b)
             /\ s = u
             /\ d = IsaSub(a, b)
             /\ IsaAdd(d, b) = a
             /\ a = [k \in 1..Len(a) |-> 255] /\ b = IsaReg(1, Len(a)) =>
                  u = IsaReg(0, Len(a)) /\ s = IsaReg(0, Len(a))
             /\ a = IsaReg(0, Len(a)) /\ b = IsaReg(1, Len(a)) =>
                  d = [k \in 1..Len(a) |-> 255]
    /\ IsOp(51, 0, 0) =>
         /\ NoTrap
         /\ registers[IsaRd(last.instruction)]
                = IsaAdd(last.registers[IsaRs1(last.instruction)],
                         last.registers[IsaRs2(last.instruction)])
    /\ IsOp(51, 0, 32) =>
         /\ NoTrap
         /\ registers[IsaRd(last.instruction)]
                = IsaSub(last.registers[IsaRs1(last.instruction)],
                         last.registers[IsaRs2(last.instruction)])
    /\ Dispatched /\ IsaOpcode(last.instruction) = 19 /\ IsaFunct3(last.instruction) = 0 =>
         /\ NoTrap
         /\ registers[IsaRd(last.instruction)]
                = IsaAddInt(last.registers[IsaRs1(last.instruction)],
                            IsaImmI(last.instruction))

\* ADD has added 1 to the all-ones value
C24_Witness ==
    /\ IsOp(51, 0, 0)
    /\ last.registers[1] = [k \in 1..ByteLen(R) |-> 255]
    /\ last.registers[2] = IsaReg(1, ByteLen(R))
    /\ registers[3] = IsaReg(0, ByteLen(R))

\* shift amounts at and beyond the width of a register: 33 and 65
ThirtyThree == <<33, 0, 0, 0, 0, 0, 0, 0>>
SixtyFive == <<65, 0, 0, 0, 0, 0, 0, 0>>

\* the words of the shifts, on x1 and x2 into x3
ProgramShift == { SLL(3, 1, 2), SRL(3, 1, 2), SRA(3, 1, 2) }

InitShift ==
    InitWith(RegisterTypes, {FALSE}, {FALSE}, {FALSE}, {0}, HartIds, {ProgramShift},
             { Host({1, 2}, {Digits, ThirtyThree}), Host({1, 2}, {MinusOne, Bit31}),
               Host({1, 2}, {Bit63, SixtyFive}), Host({1, 2}, {DeadBeef, X100}) })

SpecShift == InitShift /\ [][Next]_vars

\* the shift amount the register n names: n mod XLEN, its low log2(XLEN) bits
IsaAmount(n) == n[1] % (8 * Len(n))

\* C25: shl(x, n) and shr(x, n) are the logical shifts of x by n mod XLEN bits
\* (only the low log2(XLEN) bits of n count, on 32-bit and on 64-bit registers
\* alike), and sha(x, n) is the arithmetic right shift by n mod XLEN, filling
\* with the sign bit of x.  Stated of the operands the host has put in x1 and
\* x2, and of the results the SLL, SRL and SRA words have written.
C25_Shifts ==
    /\ last.op # "execute" =>
         \E x \in {registers[1]}, n \in {registers[2]} :
             /\ shl(x, n) = IsaShl(x, IsaAmount(n))
             /\ shr(x, n) = IsaShr(x, IsaAmount(n), FALSE)
             /\ sha(x, n) = IsaShr(x, IsaAmount(n), TRUE)
    /\ IsOp(51, 1, 0) =>
         /\ NoTrap
         /\ registers[IsaRd(last.instruction)]
                = IsaShl(last.registers[IsaRs1(last.instruction)],
                         IsaAmount(last.registers[IsaRs2(last.instruction)]))
    /\ IsOp(51, 5, 0) \/ IsOp(51, 5, 32) =>
         /\ NoTrap
         /\ registers[IsaRd(last.instruction)]
                = IsaShr(last.registers[IsaRs1(last.instruction)],
                         IsaAmount(last.registers[IsaRs2(last.instruction)]),
                         IsOp(51, 5, 32))

\* SRA has shifted the most negative 64-bit number by 65, that is by 1
C25_Witness ==
    /\ IsOp(51, 5, 32)
    /\ R = "Register64"
    /\ last.registers[1] = IsaMin(8)
    /\ last.registers[2] = IsaReg(65, 8)
    /\ registers[3] = <<0, 0, 0, 0, 0, 0, 0, 192>>

(***************************************************************************)
(* Extensions.  The host sets x1, a store puts its low bytes in memory,    *)
(* the loads extend the bytes they read into x3.                           *)
(***************************************************************************)
\* the pattern 0x80
X80 == <<128, 0, 0, 0, 0, 0, 0, 0>>

ProgramExtend ==
    { SW(1, 0, 256), LB(3, 0, 256), LBU(3, 0, 256), LH(3, 0, 256), LHU(3, 0, 256),
      LW(3, 0, 256) }

InitExtend ==
    InitWith(RegisterTypes, {FALSE}, {FALSE}, {FALSE}, {0}, HartIds, {ProgramExtend},
             { Host({1}, {DeadBeef, X100, Bit31, X80}) })

SpecExtend == InitExtend /\ [][Next]_vars

\* result is the bytes v widened to XLEN bits: its low bits are the bits of v,
\* every bit above them is the top bit of v (sign) or 0 (zero)
IsaExtends(result, v, sign) ==
    /\ Len(result) = ByteLen(R)
    /\ \E rb \in {SubSeq(IsaBits(result), 1, 8 * Len(result))},
          vb \in {SubSeq(IsaBits(v), 1, 8 * Len(v))} :
         \A k \in 1..Len(rb) :
             rb[k] = IF k <= Len(vb) THEN vb[k]
                     ELSE IF sign THEN vb[Len(vb)] ELSE 0

\* C26: for a value v of 8, 16 or 32 bits, sign_extended_byte/half/word(v) has
\* its low bits equal to v and every higher bit up to XLEN-1 equal to the top
\* bit of v, zero_extended_byte/half/word(v) has every higher bit 0, and
\* byte()/half()/word() of the result give v again; sign_extended_word on a
\* 64-bit register sets bits 32..63 to bit 31 of the word.  Stated of the low
\* bytes of the value the host has put in x1, and of what the loads LB, LBU,
\* LH, LHU and LW have written from the bytes in memory.
C26_Extensions ==
    /\ last.op # "execute" =>
         \E b \in {<<registers[1][1]>>}, h \in {IsaLow(registers[1], 2)},
            w \in {SubSeq(registers[1], 1, 4)} :
             /\ IsaExtends(sign_extended_byte(R, b[1]), b, TRUE)
             /\ IsaExtends(zero_extended_byte(R, b[1]), b, FALSE)
             /\ IsaExtends(sign_extended_half(R, h), h, TRUE)
             /\ IsaExtends(zero_extended_half(R, h), h, FALSE)
             /\ IsaExtends(sign_extended_word(R, w), w, TRUE)
             /\ IsaExtends(zero_extended_word(R, w), w, FALSE)
             /\ byte(sign_extended_byte(R, b[1])) = b[1]
             /\ byte(zero_extended_byte(R, b[1])) = b[1]
             /\ half(sign_extended_half(R, h)) = h
             /\ half(zero_extended_half(R, h)) = h
             /\ word(sign_extended_word(R, w)) = w
             /\ word(zero_extended_word(R, w)) = w
             /\ R = "Register64" =>
                  \A k \in 5..8 :
                      sign_extended_word(R, w)[k] = IF w[4] >= 128 THEN 255 ELSE 0
    /\ Dispatched /\ NoTrap /\ IsLoad(last.instruction) =>
         IsaExtends(registers[IsaRd(last.instruction)],
                    IsaMemBytes(last.mmu,
                                IsaAddInt(last.registers[IsaRs1(last.instruction)],
                                          IsaImmI(last.instruction)),
                                IsaAccessBytes(last.instruction)),
                    IsaFunct3(last.instruction) < 4)

\* LW has loaded the word 0xDEADBEEF, whose bit 31 is set, into a 64-bit register
C26_Witness ==
    /\ Dispatched /\ NoTrap
    /\ last.instruction = LW(3, 0, 256)
    /\ R = "Register64"
    /\ IsaMemBytes(last.mmu, IsaReg(256, 8), 4) = <<239, 190, 173, 222>>
    /\ registers[3] = <<239, 190, 173, 222, 255, 255, 255, 255>>

(***************************************************************************)
(* Addresses next to the top of the address space.                         *)
(***************************************************************************)
\* the last call executed a load or a store of 1, 2 or 4 bytes
IsAccess == Dispatched /\ (IsLoad(last.instruction) \/ IsStore(last.instruction))

\* the address of that access: rs1 plus the I or the S immediate
IsaAccessAddress ==
    IsaAddInt(last.registers[IsaRs1(last.instruction)],
              IF IsLoad(last.instruction) THEN IsaImmI(last.instruction)
              ELSE IsaImmS(last.instruction))

\* C27: append(offset) is (unsigned() + offset) mod 2^XLEN and never aborts,
\* for every register value and offset; hence Mmu::fetch and the loads and
\* stores of several bytes at an address within 3 (or 7) bytes of the top of
\* the address space wrap around to address 0.  Stated of the pc of every
\* fetch and of the address of every load and store, with the offsets 0..7.
C27_Append ==
    /\ last.op = "execute" =>
         /\ \A k \in 0..7 :
              /\ ~append_panics(last.pc, k)
              /\ append(last.pc, k) = from_le_bytes(IsaAddInt(last.pc, k))
         /\ ~IsPanic(Mmu_fetch(last.instruction, last.pc))
    /\ IsAccess =>
         /\ \A k \in 0..7 :
              /\ ~append_panics(IsaAccessAddress, k)
              /\ append(IsaAccessAddress, k)
                    = from_le_bytes(IsaAddInt(IsaAccessAddress, k))
         /\ ret # "panic"
         /\ IsStore(last.instruction) =>
              IsaMemBytes(mmu, IsaAccessAddress, IsaAccessBytes(last.instruction))
                  = IsaLow(last.registers[IsaRs2(last.instruction)],
                           IsaAccessBytes(last.instruction))
         /\ IsLoad(last.instruction) =>
              IsaLow(registers[IsaRd(last.instruction)],
                     IsaAccessBytes(last.instruction))
                  = IsaMemBytes(last.mmu, IsaAccessAddress,
                                IsaAccessBytes(last.instruction))

(***************************************************************************)
(* The variant decoders on instruction words of every bit pattern.         *)
(***************************************************************************)
\* the word whose bit n (0..31) is bit k (0..4) of the number n: 0xAAAAAAAA,
\* 0xCCCCCCCC, 0xF0F0F0F0, 0xFF00FF00, 0xFFFF0000; and its complement.  No two
\* bit positions agree on all five words.
BitWord(k) ==
    CASE k = 0 -> <<170, 170, 170, 170>>
      [] k = 1 -> <<204, 204, 204, 204>>
      [] k = 2 -> <<240, 240, 240, 240>>
      [] k = 3 -> <<0, 255, 0, 255>>
      [] k = 4 -> <<0, 0, 255, 255>>
HoleWord(k) == SubSeq([b \in 1..4 |-> 255 - BitWord(k)[b]], 1, 4)

\* [0xFF; 4] of tests/variant.rs
ALL_BITS == <<255, 255, 255, 255>>

\* the bit-position words and their complements, no bit, all bits, and
\* instructions of the R, I, S and C variants that name x29, x30, x31 and
\* negative immediates
ProgramDecode ==
    { BitWord(k) : k \in 0..4 } \cup { HoleWord(k) : k \in 0..4 }
        \cup { <<0, 0, 0, 0>>, ALL_BITS }
        \cup { SUB(31, 30, 29), ADDI(31, 30, -1366), SW(29, 30, -1366),
               CSRRS(31, 2816, 0), CSRRW(0, 772, 29) }

InitDecode ==
    InitWith(RegisterTypes, BOOLEAN, {FALSE}, {FALSE}, {0}, HartIds, {ProgramDecode},
             { Host({29, 30}, {X100}) })

SpecDecode == InitDecode /\ [][Next]_vars

\* C28: for every 4-byte instruction word, the decoded destination, source1
\* and source2 equal instruction bits [11:7], [19:15] and [24:20] and are in
\* 0..31, so they index the register file; decoding [0xFF; 4] as R yields
\* 0x1F for all three.  Stated of every word execute has fetched, and of the
\* registers SUB has read and written.
C28_RegisterFields ==
    /\ last.op = "execute" =>
         \E w \in {last.instruction} :
              /\ R_decode(w) = [destination |-> Field(w, 11, 7),
                                source1 |-> Field(w, 19, 15),
                                source2 |-> Field(w, 24, 20)]
              /\ {destination(w), source1(w), source2(w)} \subseteq 0..31
              /\ {destination(w), source1(w), source2(w)} \subseteq DOMAIN registers
              /\ I_decode(R, w).destination = Field(w, 11, 7)
              /\ I_decode(R, w).source = Field(w, 19, 15)
              /\ S_decode(R, w).source1 = Field(w, 19, 15)
              /\ S_decode(R, w).source2 = Field(w, 24, 20)
              /\ B_decode(R, w).source1 = Field(w, 19, 15)
              /\ B_decode(R, w).source2 = Field(w, 24, 20)
              /\ U_decode(R, w).destination = Field(w, 11, 7)
              /\ J_decode(R, w).destination = Field(w, 11, 7)
    /\ R_decode(ALL_BITS) = [destination |-> 31, source1 |-> 31, source2 |-> 31]
    /\ IsOp(51, 0, 32) =>
         /\ NoTrap
         /\ IsaWritten(last.registers, registers, Field(last.instruction, 11, 7),
                       IsaSub(last.registers[Field(last.instruction, 19, 15)],
                              last.registers[Field(last.instruction, 24, 20)]))

\* SUB x31, x30, x29 with x30 = 0 and x29 = 0x100 has written -0x100 to x31
C28_Witness ==
    /\ Dispatched /\ NoTrap
    /\ last.instruction = SUB(31, 30, 29)
    /\ last.registers[30] = IsaReg(0, ByteLen(R))
    /\ last.registers[29] = IsaReg(256, ByteLen(R))
    /\ last.registers[31] = IsaReg(0, ByteLen(R))
    /\ registers[31] = IsaReg(-256, ByteLen(R))

\* the instruction bit that bit k (0..XLEN-1) of the I immediate is: bits
\* 31:20, then the sign bit 31
IsaImmIBit(k) == IF k <= 11 THEN 20 + k ELSE 31

\* the instruction bit that bit k of the S immediate is: bits 11:7, then bits
\* 31:25, then the sign bit 31
IsaImmSBit(k) == IF k <= 4 THEN 7 + k ELSE IF k <= 11 THEN 20 + k ELSE 31

\* C29: I::decode yields immediate = bits[31:20] sign-extended to XLEN, and
\* S::decode yields immediate = {bits[31:25], bits[11:7]} sign-extended to
\* XLEN; decoding [0xFF; 4] with Register32 gives 0xFFFFFFFF in both cases.
\* Stated bit by bit of every word execute has fetched, and of the sum ADDI
\* has written and the address SW has stored to.
C29_Immediates ==
    /\ last.op = "execute" =>
         \E w \in {last.instruction} :
           \E i \in {SubSeq(IsaBits(I_decode(R, w).immediate), 1, 8 * ByteLen(R))},
              s \in {SubSeq(IsaBits(S_decode(R, w).immediate), 1, 8 * ByteLen(R))} :
              /\ Len(I_decode(R, w).immediate) = ByteLen(R)
              /\ Len(S_decode(R, w).immediate) = ByteLen(R)
              /\ \A k \in 0..(8 * ByteLen(R) - 1) :
                   /\ i[k + 1] = InstrBit(w, IsaImmIBit(k))
                   /\ s[k + 1] = InstrBit(w, IsaImmSBit(k))
              /\ I_decode(R, w).immediate = IsaReg(IsaImmI(w), ByteLen(R))
              /\ S_decode(R, w).immediate = IsaReg(IsaImmS(w), ByteLen(R))
    /\ I_decode("Register32", ALL_BITS).immediate = <<255, 255, 255, 255>>
    /\ S_decode("Register32", ALL_BITS).immediate = <<255, 255, 255, 255>>
    /\ (Dispatched /\ IsaOpcode(last.instruction) = 19
            /\ IsaFunct3(last.instruction) = 0) =>
         /\ NoTrap
         /\ IsaWritten(last.registers, registers, IsaRd(last.instruction),
                       IsaAddInt(last.registers[IsaRs1(last.instruction)],
                                 IsaImmI(last.instruction)))
    /\ (Dispatched /\ IsaOpcode(last.instruction) = 35
            /\ IsaFunct3(last.instruction) = 2) =>
         /\ NoTrap
         /\ IsaStored(last.mmu, mmu,
                      IsaAddInt(last.registers[IsaRs1(last.instruction)],
                                IsaImmS(last.instruction)),
                      IsaLow(last.registers[IsaRs2(last.instruction)], 4))

\* SW x29, -1366(x30) with x29 = x30 = 0x100 has stored 0x100 at 0x100 - 1366
C29_Witness ==
    /\ Dispatched /\ NoTrap
    /\ last.instruction = SW(29, 30, -1366)
    /\ last.registers[30] = IsaReg(256, ByteLen(R))
    /\ last.registers[29] = IsaReg(256, ByteLen(R))
    /\ IsaMemBytes(last.mmu, IsaReg(-1110, ByteLen(R)), 4) = <<0, 0, 0, 0>>
    /\ IsaMemBytes(mmu, IsaReg(-1110, ByteLen(R)), 4) = <<0, 1, 0, 0>>

\* the bits of mie that a CSR write can set (0x0BBB)
IsaMieBits == {0, 1, 3, 4, 5, 7, 8, 9, 11}

\* C30: C::decode yields csr = bits[31:20] as an unsigned 12-bit value in
\* 0..0xFFF (never sign-extended) and source = bits[19:15] in 0..31; decoding
\* [0xFF; 4] gives csr = 0x0FFF.  Stated of every word execute has fetched, of
\* the value a CSR read has written to rd (mcycle is CSR 0xB00, bit 11 set),
\* and of the source register CSRRW has written to mie.
C30_CsrFields ==
    /\ last.op = "execute" =>
         \E w \in {last.instruction} :
              /\ C_decode(w).csr = Field(w, 31, 20)
              /\ C_decode(w).csr \in 0..4095
              /\ C_decode(w).source = Field(w, 19, 15)
              /\ C_decode(w).source \in 0..31
              /\ C_decode(w).destination = Field(w, 11, 7)
    /\ C_decode(ALL_BITS) = [destination |-> 31, source |-> 31, csr |-> 4095]
    /\ (ext_csr /\ Dispatched /\ IsCsrRead(last.instruction)
            /\ IsaCsrStored(Field(last.instruction, 31, 20))) =>
         /\ NoTrap
         /\ IsaWritten(last.registers, registers, IsaRd(last.instruction),
                       IsaCsrValue(csr, Field(last.instruction, 31, 20), ByteLen(R)))
    /\ (ext_csr /\ Dispatched /\ IsaOpcode(last.instruction) = 115
            /\ IsaFunct3(last.instruction) = 1
            /\ Field(last.instruction, 31, 20) = 772) =>
         /\ NoTrap
         /\ \E new \in {SubSeq(IsaBits(csr.mie), 1, 8 * ByteLen(R))},
               source \in {SubSeq(IsaBits(last.registers[Field(last.instruction, 19, 15)]),
                                  1, 8 * ByteLen(R))} :
              \A k \in IsaMieBits : new[k + 1] = source[k + 1]

\* CSRRS x31, mcycle, x0 as the second call has written the cycle count 2 to x31
C30_Witness ==
    /\ ext_csr /\ Dispatched /\ NoTrap
    /\ last.instruction = CSRRS(31, 2816, 0)
    /\ C_decode(last.instruction).csr = 2816
    /\ last.registers[31] = IsaReg(0, ByteLen(R))
    /\ registers[31] = IsaReg(2, ByteLen(R))

(***************************************************************************)
(* The offsets and the upper immediate: the B, J and U decoders.           *)
(***************************************************************************)
\* the bit-position words and their complements, no bit, all bits, and
\* branches, jumps and LUI whose immediates alternate 1 and 0
ProgramOffsets ==
    { BitWord(k) : k \in 0..4 } \cup { HoleWord(k) : k \in 0..4 }
        \cup { <<0, 0, 0, 0>>, ALL_BITS }
        \cup { BNE(29, 0, -2732), BEQ(0, 0, 2730), BEQ(0, 0, -2),
               JAL(31, 699050), JAL(0, -699052),
               LUI(31, 699050), LUI(30, 349525) }

InitOffsets ==
    InitWith(RegisterTypes, {FALSE}, {FALSE}, {FALSE}, {0}, HartIds, {ProgramOffsets},
             { Host({29}, {One, X100}) })

SpecOffsets == InitOffsets /\ [][Next]_vars

\* the instruction bit that bit k (1..XLEN-1) of the B offset is: bits 11:8,
\* bits 30:25, bit 7, then the sign bit 31
IsaImmBBit(k) ==
    IF k <= 4 THEN 7 + k ELSE IF k <= 10 THEN 20 + k ELSE IF k = 11 THEN 7 ELSE 31

\* the instruction bit that bit k (1..XLEN-1) of the J offset is: bits 30:21,
\* bit 20, bits 19:12, then the sign bit 31
IsaImmJBit(k) ==
    IF k <= 10 THEN 20 + k ELSE IF k = 11 THEN 20 ELSE IF k <= 19 THEN k ELSE 31

\* the J offset as an integer
IsaImmJ(instruction) ==
    Field(instruction, 30, 21) * 2 + InstrBit(instruction, 20) * 2048
        + Field(instruction, 19, 12) * 4096 - 1048576 * InstrBit(instruction, 31)

\* C31: for every 4-byte instruction word, the B immediate is the
\* sign-extended 13-bit offset {bit31, bit7, bits[30:25], bits[11:8], 0} and
\* the J immediate is the sign-extended 21-bit offset {bit31, bits[19:12],
\* bit20, bits[30:21], 0}; both always have their least-significant bit 0.
\* Stated bit by bit of every word execute has fetched, and of the pc a taken
\* branch and JAL have left.
C31_Offsets ==
    /\ last.op = "execute" =>
         \E w \in {last.instruction} :
           \E b \in {SubSeq(IsaBits(B_decode(R, w).immediate), 1, 8 * ByteLen(R))},
              j \in {SubSeq(IsaBits(J_decode(R, w).immediate), 1, 8 * ByteLen(R))} :
              /\ Len(B_decode(R, w).immediate) = ByteLen(R)
              /\ Len(J_decode(R, w).immediate) = ByteLen(R)
              /\ b[1] = 0
              /\ j[1] = 0
              /\ \A k \in 1..(8 * ByteLen(R) - 1) :
                   /\ b[k + 1] = InstrBit(w, IsaImmBBit(k))
                   /\ j[k + 1] = InstrBit(w, IsaImmJBit(k))
              /\ B_decode(R, w).immediate = IsaReg(IsaImmB(w), ByteLen(R))
              /\ J_decode(R, w).immediate = IsaReg(IsaImmJ(w), ByteLen(R))
    /\ (Dispatched /\ IsBranch(last.instruction)
            /\ IsaBranchTaken(last.instruction,
                              last.registers[IsaRs1(last.instruction)],
                              last.registers[IsaRs2(last.instruction)])) =>
         pc = IsaAddInt(last.pc, IsaImmB(last.instruction))
    /\ (Dispatched /\ IsaOpcode(last.instruction) = 111) =>
         /\ pc = IsaAddInt(last.pc, IsaImmJ(last.instruction))
         /\ IsaWritten(last.registers, registers, IsaRd(last.instruction),
                       IsaAddInt(last.pc, 4))

\* BNE x29, x0, -2732 taken with x29 = 1 from pc = 699050, where JAL had gone
C31_Witness ==
    /\ Dispatched /\ NoTrap
    /\ last.instruction = BNE(29, 0, -2732)
    /\ last.registers[29] = IsaReg(1, ByteLen(R))
    /\ last.pc = IsaReg(699050, ByteLen(R))
    /\ last.registers[31] = IsaReg(4, ByteLen(R))
    /\ pc = IsaReg(696318, ByteLen(R))

\* C32: for every 4-byte instruction word, U::decode yields an immediate
\* whose low 12 bits are 0, whose bits 12..31 equal instruction bits [31:12],
\* and which on a 64-bit register has bits 32..63 equal to instruction bit 31;
\* decoding [0xFF; 4] with Register32 gives 0xFFFFF000.  Stated bit by bit of
\* every word execute has fetched, and of the value LUI has written.
C32_Upper ==
    /\ last.op = "execute" =>
         \E w \in {last.instruction} :
           \E u \in {SubSeq(IsaBits(U_decode(R, w).immediate), 1, 8 * ByteLen(R))} :
              /\ Len(U_decode(R, w).immediate) = ByteLen(R)
              /\ \A k \in 0..(8 * ByteLen(R) - 1) :
                   u[k + 1] = IF k <= 11 THEN 0
                              ELSE IF k <= 31 THEN InstrBit(w, k)
                              ELSE InstrBit(w, 31)
    /\ U_decode("Register32", ALL_BITS).immediate = <<0, 240, 255, 255>>
    /\ U_decode("Register64", ALL_BITS).immediate
           = <<0, 240, 255, 255, 255, 255, 255, 255>>
    /\ (Dispatched /\ IsaOpcode(last.instruction) = 55) =>
         /\ NoTrap
         /\ IsaWritten(last.registers, registers, IsaRd(last.instruction),
                       IsaSext(<<0, 16 * Field(last.instruction, 15, 12),
                                 Field(last.instruction, 23, 16),
                                 Field(last.instruction, 31, 24)>>, ByteLen(R)))

\* LUI x31, 0xAAAAA has written 0xFFFFFFFFAAAAA000 to a 64-bit x31
C32_Witness ==
    /\ Dispatched /\ NoTrap
    /\ last.instruction = LUI(31, 699050)
    /\ R = "Register64"
    /\ last.registers[31] = IsaReg(0, 8)
    /\ registers[31] = <<0, 160, 170, 170, 255, 255, 255, 255>>

\* C33, as the code has it: decoding [0xFF; 4] with Register32 yields
\* 0xFFFFFFFE for the B variant, every bit set but bit 0, while the I and S
\* variants yield 0xFFFFFFFF; a taken branch whose offset field is all ones
\* (BEQ x0, x0, -2, the word 0xFE000FE3) moves pc by -2.
C33_AllBits ==
    /\ (last.op = "execute" /\ last.instruction = ALL_BITS /\ R = "Register32") =>
         /\ B_decode(R, last.instruction).immediate = <<254, 255, 255, 255>>
         /\ I_decode(R, last.instruction).immediate = <<255, 255, 255, 255>>
         /\ S_decode(R, last.instruction).immediate = <<255, 255, 255, 255>>
    /\ (Dispatched /\ last.instruction = <<227, 15, 0, 254>>) =>
         pc = IsaAddInt(last.pc, -2)

\* a 32-bit core has fetched and decoded the word [0xFF; 4]
C33_Witness ==
    /\ last.op = "execute"
    /\ last.instruction = ALL_BITS
    /\ R = "Register32"
    /\ ret = "IllegalInstruction"
    /\ B_decode(R, last.instruction).immediate[1] = 254

\* C33 as stated: decoding [0xFF; 4] with Register32 yields 0xFFFFFFFF for the
\* B variant
C33_AllOnes ==
    (last.op = "execute" /\ last.instruction = ALL_BITS /\ R = "Register32") =>
        B_decode(R, last.instruction).immediate = <<255, 255, 255, 255>>

(***************************************************************************)
(* Instructions whose destination is x0.                                   *)
(***************************************************************************)
\* jumps, loads and CSR instructions with rd = x0, and a store for the loads
ProgramDiscard ==
    { JAL(0, 8), JALR(0, 1, 0), JALR(0, 1, 1), SW(1, 0, 64), LW(0, 0, 64), LB(0, 1, 0),
      LHU(0, 1, -2), CSRRS(0, 772, 1), CSRRC(0, 772, 1), CSRRS(0, 836, 1) }

InitDiscard ==
    InitWith(RegisterTypes, BOOLEAN, {FALSE}, {FALSE}, {0}, HartIds, {ProgramDiscard},
             { Host({1}, {One, X100}) })

SpecDiscard == InitDiscard /\ [][Next]_vars

\* the last call executed an instruction whose rd field is 0
IsDiscard == Dispatched /\ IsaRd(last.instruction) = 0

\* the value a register value has with bit 0 cleared
IsaEven(a) == [k \in 1..Len(a) |-> IF k = 1 THEN a[1] - (a[1] % 2) ELSE a[k]]

\* C34: an instruction whose destination is x0 still performs all of its
\* other effects: JAL and JALR with rd = x0 still set pc to the jump target
\* (for JALR, rs1 + sext(imm) with bit 0 cleared), a load with rd = x0 still
\* advances pc by 4, and CSRRS/CSRRC with rd = x0 and rs1 # x0 still write the
\* CSR (mie, mip); only the register write is dropped.
C34_Discard ==
    /\ IsDiscard => \A index \in 0..31 : registers[index] = last.registers[index]
    /\ (IsDiscard /\ IsaOpcode(last.instruction) = 111) =>
         pc = IsaAddInt(last.pc, IsaImmJ(last.instruction))
    /\ (IsDiscard /\ IsJalr(last.instruction)) =>
         pc = IsaEven(IsaAddInt(last.registers[IsaRs1(last.instruction)],
                                IsaImmI(last.instruction)))
    /\ (IsDiscard /\ IsLoad(last.instruction)) =>
         /\ NoTrap
         /\ pc = IsaAddInt(last.pc, 4)
         /\ mmu = last.mmu
    /\ (ext_csr /\ IsDiscard /\ IsaOpcode(last.instruction) = 115
            /\ IsaFunct3(last.instruction) \in {2, 3}
            /\ IsaRs1(last.instruction) # 0
            /\ IsaCsr(last.instruction) \in {772, 836}) =>
         /\ NoTrap
         /\ pc = IsaAddInt(last.pc, 4)
         /\ IsaCsrValue(csr, IsaCsr(last.instruction), ByteLen(R))
               = IsaUnreserved(IsaCsrNew(last.instruction,
                     IsaCsrValue(last.csr, IsaCsr(last.instruction), ByteLen(R)),
                     last.registers[IsaRs1(last.instruction)]))

(***************************************************************************)
(* The CSR instructions on the writable CSRs mie and mip.                  *)
(***************************************************************************)
\* register and immediate forms, with rd = rs1, on mie (0x304) and mip (0x344)
ProgramExchange ==
    { CSRRW(1, 772, 1), CSRRS(1, 772, 1), CSRRC(1, 772, 1), CSRRS(3, 836, 1),
      CSRRW(3, 836, 1), CSRRWI(3, 772, 27), CSRRSI(3, 836, 9), CSRRCI(3, 772, 3) }

InitExchange ==
    InitWith(RegisterTypes, {TRUE}, {FALSE}, {FALSE}, {0}, HartIds, {ProgramExchange},
             { Host({1}, {DeadBeef, X100}) })

SpecExchange == InitExchange /\ [][Next]_vars

\* the last call executed a CSR instruction naming mie or mip
IsExchange ==
    /\ ext_csr /\ Dispatched
    /\ IsCsrInstr(last.instruction)
    /\ IsaCsr(last.instruction) \in {772, 836}

\* C35: for the writable CSRs mie and mip, one CSR instruction reads and
\* writes within the same step: rd receives the CSR value from before the
\* step, and the CSR becomes mask(rs1) for CSRRW, mask(old | rs1) for CSRRS
\* and mask(old & ~rs1) for CSRRC, mask(v) being v & ~0x0000F444, using the
\* value rs1 held before the step even when rd = rs1; the immediate forms use
\* the 5-bit field bits[19:15] zero-extended in place of rs1.
C35_Exchange ==
    IsExchange =>
        \E address \in {IsaCsr(last.instruction)} :
          \E old \in {IsaCsrValue(last.csr, address, ByteLen(R))} :
            /\ NoTrap
            /\ pc = IsaAddInt(last.pc, 4)
            /\ IsaWritten(last.registers, registers, IsaRd(last.instruction), old)
            /\ IsaCsrValue(csr, address, ByteLen(R))
                  = IsaUnreserved(IsaCsrNew(last.instruction, old,
                        IsaCsrSource(last.instruction, last.registers)))

(***************************************************************************)
(* The CSRs no instruction writes.                                         *)
(***************************************************************************)
\* mtvec, mhartid, medeleg, mideleg, mcounteren, mscratch, mepc, mcause, mtval
IsaFixed == {773, 3860, 770, 771, 774, 832, 833, 834, 835}
IsaFixedFields ==
    {"mtvec", "mhartid", "medeleg", "mideleg", "mcounteren", "mscratch", "mepc",
     "mcause", "mtval"}

\* a CSRRW to each of them, the other five forms, and a CSRRW to mie
ProgramFixed ==
    { CSRRW(3, address, 1) : address \in IsaFixed }
        \cup { CSRRW(0, 773, 1), CSRRS(0, 773, 1), CSRRC(3, 832, 1), CSRRWI(0, 833, 31),
               CSRRSI(3, 834, 31), CSRRCI(0, 835, 31), CSRRW(3, 772, 1) }

InitFixed ==
    InitWith(RegisterTypes, {TRUE}, {FALSE}, {FALSE}, {8}, {0, 1}, {ProgramFixed},
             { Host({1}, {DeadBeef}) })

SpecFixed == InitFixed /\ [][Next]_vars

\* C36: set_csr(index, value) with any index other than 0x304 (mie) and 0x344
\* (mip) leaves the whole CSR file unchanged; therefore no sequence of CSR
\* instructions changes mtvec, mhartid, medeleg, mideleg, mcounteren,
\* mscratch, mepc, mcause or mtval, and mtvec equals the constructor's entry
\* address in every reachable state.
C36_Fixed ==
    /\ (ext_csr /\ last.op = "set") =>
         \A index \in 0..4095 \ {772, 836} :
             set_csr([registers |-> registers, pc |-> pc, csr |-> csr], index,
                     registers[1]).csr = csr
    /\ (ext_csr /\ last.op = "execute" /\ IsCsrInstr(last.instruction)) =>
         /\ \A field \in IsaFixedFields : csr[field] = last.csr[field]
         /\ IsaCsr(last.instruction) \notin {772, 836} =>
                csr.mie = last.csr.mie /\ csr.mip = last.csr.mip
    /\ ext_csr => csr.mtvec = IsaReg(host.entry, ByteLen(R))

\* CSRRW x3, mtvec, x1 with x1 = 0xDEADBEEF, after a CSRRW that did write mie,
\* has left mtvec at the entry address 8
C36_Witness ==
    /\ ext_csr /\ Dispatched /\ NoTrap
    /\ last.instruction = CSRRW(3, 773, 1)
    /\ last.registers[1][1] = 239
    /\ last.csr.mie # IsaReg(0, ByteLen(R))
    /\ registers[3] = IsaReg(8, ByteLen(R))
    /\ csr.mtvec = IsaReg(8, ByteLen(R))

(***************************************************************************)
(* What trap entry records.                                                *)
(***************************************************************************)
\* C37: after trap entry, mtval equals the pc of the trapping instruction for
\* a breakpoint (and a misaligned fetch) and equals 0 for an
\* illegal-instruction trap, whatever traps were taken earlier; e.g. an EBREAK
\* trap followed later by an illegal-instruction trap leaves mtval = 0.
C37_Mtval ==
    /\ (ext_csr /\ Dispatched /\ last.pc[1] % 4 = 0 /\ IsEbreak(last.instruction)) =>
         csr.mtval = last.pc
    /\ (ext_csr /\ last.op = "execute" /\ last.pc[1] % 4 # 0) =>
         csr.mtval = last.pc
    /\ (ext_csr /\ Dispatched /\ last.pc[1] % 4 = 0 /\ ~HasHandler(last.instruction)) =>
         csr.mtval = default(R)

\* C38: trap entry records the address of the trapping instruction in mepc:
\* after execute() takes a trap at pc = p with Zicsr enabled, reading CSR
\* 0x341 returns p.
C38_Mepc ==
    (ext_csr /\ Dispatched /\ IsaTraps(last.instruction)) =>
        /\ ret # "panic"
        /\ csr.mepc = last.pc
        /\ get_csr([registers |-> registers, pc |-> pc, csr |-> csr], 833) = last.pc

(***************************************************************************)
(* The cycle counter as a CSR.                                             *)
(***************************************************************************)
\* reads of mcycle, minstret, mcycleh and minstreth
ProgramCounter ==
    { CSRRS(3, 2816, 0), CSRRS(3, 2818, 0), CSRRS(3, 2944, 0), CSRRS(3, 2946, 0),
      ADDI(1, 0, 5) }

InitCounter ==
    InitWith(RegisterTypes, {TRUE}, {FALSE}, {FALSE}, {0}, HartIds, {ProgramCounter},
             { Host({3}, {DeadBeef, Digits}) })

SpecCounter == InitCounter /\ [][Next]_vars

\* the counter values get_csr is read at: the one the core holds, and the
\* values 2^32 - 1, 2^32 and 0x0807060504030201 it holds after that many steps
CounterValues ==
    { csr.mcycle, <<255, 255, 255, 255, 0, 0, 0, 0>>, <<0, 0, 0, 0, 1, 0, 0, 0>>,
      <<1, 2, 3, 4, 5, 6, 7, 8>> }

\* the core with its cycle counter at c
CoreAt(c) == [registers |-> registers, pc |-> pc, csr |-> [csr EXCEPT !.mcycle = c]]

\* C39: get_csr(0xB00) (mcycle) and get_csr(0xB02) (minstret) return the low
\* XLEN bits of the 64-bit cycle counter: the low 32 bits on a 32-bit core and
\* the full 64-bit counter on a 64-bit core; get_csr(0xB80)/get_csr(0xB82)
\* return the high 32 bits on a 32-bit core and are an illegal-instruction
\* error on a 64-bit core.
C39_Counter ==
    ext_csr =>
        \A c \in CounterValues :
            /\ R = "Register32" =>
                 /\ get_csr(CoreAt(c), 2816) = SubSeq(c, 1, 4)
                 /\ get_csr(CoreAt(c), 2818) = SubSeq(c, 1, 4)
                 /\ get_csr(CoreAt(c), 2944) = SubSeq(c, 5, 8)
                 /\ get_csr(CoreAt(c), 2946) = SubSeq(c, 5, 8)
            /\ R = "Register64" =>
                 /\ get_csr(CoreAt(c), 2816) = c
                 /\ get_csr(CoreAt(c), 2818) = c
                 /\ IsErr(get_csr(CoreAt(c), 2944))
                 /\ IsErr(get_csr(CoreAt(c), 2946))

(***************************************************************************)
(* Calls of execute that do not return.                                    *)
(***************************************************************************)
\* LD, ECALL, a CSR read of mstatus (0x300) and of an undefined CSR (0x7C0),
\* and instructions that complete or trap
ProgramAbort ==
    { LD(3, 0, 0), ECALL, CSRRS(3, 768, 0), CSRRS(3, 1984, 0), EBREAK, ADDI(1, 0, 5),
      <<0, 0, 0, 0>>, ALL_BITS }

InitAbort ==
    InitWith(RegisterTypes, BOOLEAN, {FALSE}, {FALSE}, {0}, HartIds, {ProgramAbort},
             { Host({1}, {DeadBeef, X100}) })

SpecAbort == InitAbort /\ [][Next]_vars

\* C40: execute() never aborts (panics): for every 4-byte instruction word,
\* every register-file, CSR and memory content, on 32-bit and 64-bit cores,
\* with and without Zicsr, the call returns after one step, any failure being
\* reported only as one of the four trap kinds (this includes LD on a 32-bit
\* core, ECALL under Zicsr, and CSR instructions naming mstatus 0x300 or an
\* undefined CSR).
C40_NoAbort ==
    last.op = "execute" =>
        /\ ret # "panic"
        /\ ret \in {"None", "()"} \cup Traps
====
